--------------------------- MODULE FeedbackProofs ---------------------------
(***************************************************************************)
(* Proofs about Feedback, for every set of versions, start modes, faults   *)
(* and activities: what the readers let pass, that the agent with its      *)
(* messages still is the agent of SelfUpdateAgent, so that all that is     *)
(* proved there holds here too, and what the messages name.                *)
(***************************************************************************)
EXTENDS Feedback, SelfUpdateAgentProofs, SequenceTheorems, WellFoundedInduction

----------------------------------------------------------------------------
(* The readers.                                                            *)

Verdicts == {"ok", "json exception", "logic error", "runtime error"}

(* Verdict lets pass only what passes every check.                         *)
LEMMA VerdictIsOk ==
    ASSUME NEW checks \in Seq(Verdicts), Verdict(checks) = "ok"
    PROVE  \A i \in 1 .. Len(checks) : checks[i] = "ok"
<1> DEFINE Failed == {i \in 1 .. Len(checks) : checks[i] # "ok"}
           first == SelectInSeq(checks, LAMBDA c : c # "ok")
<1>1. first = IF Failed # {} THEN Min(Failed) ELSE 0
  BY DEF SelectInSeq
<1>2. SUFFICES ASSUME Failed # {} PROVE FALSE
  OBVIOUS
<1>3. Failed \in SUBSET Nat
  OBVIOUS
<1>4. PICK m \in Failed : \A k \in Failed : m <= k
  <2> DEFINE R == OpToRel(<, Nat)
  <2>1. PICK m \in Failed : \A k \in Failed : <<k, m>> \notin R
    BY <1>2, <1>3, WFMin, NatLessThanWellFounded
  <2>2. \A k \in Failed : ~ (k < m)
    BY <1>3, <2>1 DEF OpToRel
  <2> QED BY <1>3, <2>2
<1>5. Min(Failed) \in Failed
  BY <1>4 DEF Min
<1>6. first # 0 /\ checks[first] # "ok"
  BY <1>1, <1>2, <1>5
<1> QED BY <1>6 DEF Verdict

(* These are the verdicts of the single checks.                            *)
LEMMA ChecksAreVerdicts ==
    /\ \A place : Text(place) \in Verdicts
    /\ \A place, error : error \in Verdicts => Filled(place, error) \in Verdicts
    /\ \A list : Found(list) \in Verdicts
<1>1. \A place : Text(place) \in Verdicts
  BY DEF Text, Verdicts
<1>2. \A place, error : error \in Verdicts => Filled(place, error) \in Verdicts
  BY DEF Filled, Verdicts
<1>3. \A list : Found(list) \in Verdicts
  BY DEF Found, Verdicts
<1> QED BY <1>1, <1>2, <1>3

(* A sequence that begins with two given elements.                         *)
LEMMA PairFirst ==
    ASSUME NEW S, NEW a \in S, NEW b \in S, NEW t \in Seq(S)
    PROVE  /\ <<a, b>> \o t \in Seq(S)
           /\ Len(<<a, b>> \o t) = 2 + Len(t)
           /\ (<<a, b>> \o t)[1] = a
           /\ (<<a, b>> \o t)[2] = b
           /\ \A i \in 1..Len(t) : (<<a, b>> \o t)[i + 2] = t[i]
<1> DEFINE s == <<a, b>>
<1>0. s \in Seq(S) /\ Len(s) = 2 /\ s[1] = a /\ s[2] = b
  OBVIOUS
<1> HIDE DEF s
<1>3. Len(t) \in Nat
  OBVIOUS
<1>1. s \o t \in Seq(S) /\ Len(s \o t) = Len(s) + Len(t)
  BY <1>0, ConcatProperties
<1>2. \A i \in 1 .. Len(s) + Len(t) : (s \o t)[i] = IF i <= Len(s) THEN s[i] ELSE t[i - Len(s)]
  BY <1>0, ConcatProperties
<1>4. (s \o t)[1] = a /\ (s \o t)[2] = b
  <2>1. 1 \in 1 .. Len(s) + Len(t) /\ 2 \in 1 .. Len(s) + Len(t) /\ 1 <= Len(s) /\ 2 <= Len(s)
    BY <1>0, <1>3
  <2> QED BY <1>0, <1>2, <2>1
<1>5. ASSUME NEW i \in 1..Len(t) PROVE (s \o t)[i + 2] = t[i]
  <2>1. i + 2 \in 1 .. Len(s) + Len(t) /\ ~ (i + 2 <= Len(s)) /\ i + 2 - Len(s) = i
    BY <1>0, <1>3
  <2> QED BY <1>2, <2>1
<1> QED BY <1>0, <1>1, <1>4, <1>5 DEF s

(* Every reader begins with Named: what it lets pass has an activityId     *)
(* that can be read and is not empty.                                      *)
LEMMA NamedPasses ==
    ASSUME NEW request, NEW more \in Seq(Verdicts),
           Verdict(Named(request) \o more) = "ok"
    PROVE  /\ request.activityId \notin NoText
           /\ \A i \in 1 .. Len(more) : more[i] = "ok"
<1> DEFINE a == Text(request.activityId)
           b == Filled(request.activityId, "logic error")
           checks == <<a, b>> \o more
<1>1. a \in Verdicts /\ b \in Verdicts
  BY ChecksAreVerdicts DEF Verdicts
<1>2. Verdict(checks) = "ok"
  BY DEF Named
<1> HIDE DEF a, b
<1>3. /\ checks \in Seq(Verdicts) /\ Len(checks) = 2 + Len(more)
      /\ checks[1] = a /\ checks[2] = b
      /\ \A i \in 1 .. Len(more) : checks[i + 2] = more[i]
  BY <1>1, PairFirst
<1> HIDE DEF checks
<1>4. \A i \in 1 .. 2 + Len(more) : checks[i] = "ok"
  BY <1>2, <1>3, VerdictIsOk
<1>5. Len(more) \in Nat
  OBVIOUS
<1>6. a = "ok" /\ b = "ok"
  <2>1. 1 \in 1 .. 2 + Len(more) /\ 2 \in 1 .. 2 + Len(more)
    BY <1>5
  <2> QED BY <1>3, <1>4, <2>1
<1>7. ASSUME NEW i \in 1 .. Len(more) PROVE more[i] = "ok"
  <2>1. i + 2 \in 1 .. 2 + Len(more)
    BY <1>5
  <2> QED BY <1>3, <1>4, <2>1
<1>8. request.activityId \notin NoText
  BY <1>6 DEF a, b, Text, Filled, NoText
<1> QED BY <1>7, <1>8

(* The checks of readDesiredState after Named are seven.                   *)
LEMMA Seven ==
    ASSUME NEW S, NEW a1 \in S, NEW a2 \in S, NEW a3 \in S, NEW a4 \in S,
           NEW a5 \in S, NEW a6 \in S, NEW a7 \in S
    PROVE  /\ <<a1, a2, a3, a4, a5, a6, a7>> \in Seq(S)
           /\ Len(<<a1, a2, a3, a4, a5, a6, a7>>) = 7
           /\ <<a1, a2, a3, a4, a5, a6, a7>>[1] = a1
           /\ <<a1, a2, a3, a4, a5, a6, a7>>[2] = a2
           /\ <<a1, a2, a3, a4, a5, a6, a7>>[3] = a3
           /\ <<a1, a2, a3, a4, a5, a6, a7>>[4] = a4
           /\ <<a1, a2, a3, a4, a5, a6, a7>>[5] = a5
           /\ <<a1, a2, a3, a4, a5, a6, a7>>[6] = a6
           /\ <<a1, a2, a3, a4, a5, a6, a7>>[7] = a7
OBVIOUS

(* The places of the desired states that are looked at below.              *)
LEMMA PlacesOfDesiredStates ==
    ASSUME NEW r \in DesiredStates, r # NoJson
    PROVE  /\ r.json = TRUE
           /\ r.activityId \in Activities \cup NoText
           /\ r.version \in Versions \cup NoText
<1> DEFINE Texts(q) == /\ q.json = TRUE
                       /\ q.activityId \in Activities \cup NoText
                       /\ q.version \in Versions \cup NoText
<1> SUFFICES Texts(r)
  OBVIOUS
<1>1. \A q \in CompleteRequests : Texts(q)
  BY DEF CompleteRequests
<1>2. \A q \in CompleteRequests, text \in NoText :
         /\ Texts([q EXCEPT !.activityId = text])
         /\ Texts([q EXCEPT !.version = text])
         /\ Texts([q EXCEPT !.url = text])
  BY DEF CompleteRequests
<1>3. \A q \in CompleteRequests, list \in Lists :
         /\ Texts([q EXCEPT !.domains = list])
         /\ Texts([q EXCEPT !.components = list])
         /\ Texts([q EXCEPT !.config = list])
  BY DEF CompleteRequests
<1> HIDE DEF Texts
<1>4. ASSUME NEW e \in Untold PROVE Texts(e)
  <2>1. PICK q \in CompleteRequests, text \in NoText :
           e \in {[q EXCEPT !.activityId = text], [q EXCEPT !.version = text],
                 [q EXCEPT !.url = text]}
    BY DEF Untold
  <2> QED BY <1>2, <2>1
<1>5. ASSUME NEW e \in Unlisted PROVE Texts(e)
  <2>1. PICK q \in CompleteRequests, list \in Lists :
           e \in {[q EXCEPT !.domains = list], [q EXCEPT !.components = list],
                 [q EXCEPT !.config = list]}
    BY DEF Unlisted
  <2> QED BY <1>3, <2>1
<1> QED BY <1>1, <1>4, <1>5 DEF DesiredStates

(* The places after the activityId give a sequence of verdicts.            *)
LEMMA PlacedIsSequence ==
    ASSUME NEW r
    PROVE  /\ Placed(r) \in Seq(Verdicts) /\ Len(Placed(r)) = 7
           /\ Placed(r)[1] = Found(r.domains)
           /\ Placed(r)[2] = Found(r.components)
           /\ Placed(r)[3] = Found(r.config)
           /\ Placed(r)[4] = Text(r.version)
           /\ Placed(r)[5] = Text(r.url)
           /\ Placed(r)[6] = Filled(r.version, "runtime error")
           /\ Placed(r)[7] = Filled(r.url, "runtime error")
<1> DEFINE a1 == Found(r.domains)
           a2 == Found(r.components)
           a3 == Found(r.config)
           a4 == Text(r.version)
           a5 == Text(r.url)
           a6 == Filled(r.version, "runtime error")
           a7 == Filled(r.url, "runtime error")
<1>1. "runtime error" \in Verdicts
  BY DEF Verdicts
<1>2. /\ a1 \in Verdicts /\ a2 \in Verdicts /\ a3 \in Verdicts /\ a4 \in Verdicts
      /\ a5 \in Verdicts /\ a6 \in Verdicts /\ a7 \in Verdicts
  BY <1>1, ChecksAreVerdicts
<1>3. Placed(r) = <<a1, a2, a3, a4, a5, a6, a7>>
  BY DEF Placed
<1> HIDE DEF a1, a2, a3, a4, a5, a6, a7
<1>4. /\ Placed(r) \in Seq(Verdicts) /\ Len(Placed(r)) = 7
      /\ Placed(r)[1] = a1 /\ Placed(r)[2] = a2 /\ Placed(r)[3] = a3
      /\ Placed(r)[4] = a4 /\ Placed(r)[5] = a5 /\ Placed(r)[6] = a6
      /\ Placed(r)[7] = a7
  BY <1>2, <1>3, Seven
<1> QED BY <1>4 DEF a1, a2, a3, a4, a5, a6, a7

(* So does the command of a command request.                               *)
LEMMA KnownIsSequence ==
    ASSUME NEW r
    PROVE  /\ Known(r) \in Seq(Verdicts) /\ Len(Known(r)) = 2
           /\ Known(r)[2] = "ok" => r.command \in DOMAIN CommandEvents
<1> DEFINE a == IF r.command = "missing" THEN "json exception" ELSE "ok"
           b == IF r.command \in DOMAIN CommandEvents THEN "ok" ELSE "runtime error"
<1>1. a \in Verdicts /\ b \in Verdicts
  BY DEF Verdicts
<1>2. Known(r) = <<a, b>> /\ (b = "ok" => r.command \in DOMAIN CommandEvents)
  BY DEF Known
<1> HIDE DEF a, b
<1>3. <<a, b>> \in Seq(Verdicts) /\ Len(<<a, b>>) = 2 /\ <<a, b>>[2] = b
  BY <1>1
<1> QED BY <1>2, <1>3

(* What is no JSON is read by nobody.                                      *)
LEMMA NoJsonIsNotRead ==
    /\ ReadDesiredState(NoJson) = "parse error"
    /\ ReadCurrentStateRequest(NoJson) = "parse error"
    /\ ReadCommand(NoJson) = "parse error"
<1>1. ~ NoJson.json
  BY DEF NoJson
<1> QED BY <1>1 DEF ReadDesiredState, ReadCurrentStateRequest, ReadCommand

(* A desired state that was read has an activity and a version.            *)
LEMMA IdentificationsAreComplete ==
    ASSUME NEW d \in Identifications
    PROVE  d.activityId \in Activities /\ d.version \in Versions
<1>1. PICK r \in DesiredStates :
          /\ ReadDesiredState(r) = "ok"
          /\ d = [activityId |-> r.activityId, version |-> r.version]
  BY DEF Identifications
<1>2. r # NoJson
  BY <1>1, NoJsonIsNotRead
<1>3. /\ r.json = TRUE
      /\ r.activityId \in Activities \cup NoText
      /\ r.version \in Versions \cup NoText
  BY <1>2, PlacesOfDesiredStates
<1>4. Verdict(Named(r) \o Placed(r)) = "ok"
  BY <1>1, <1>3 DEF ReadDesiredState
<1>5. /\ r.activityId \notin NoText
      /\ \A i \in 1 .. 7 : Placed(r)[i] = "ok"
  BY <1>4, PlacedIsSequence, NamedPasses
<1>6. Text(r.version) = "ok" /\ Filled(r.version, "runtime error") = "ok"
  <2>1. 4 \in 1 .. 7 /\ 6 \in 1 .. 7
    OBVIOUS
  <2> QED BY <1>5, <2>1, PlacedIsSequence
<1>7. r.version \notin NoText
  BY <1>6 DEF Text, Filled, NoText
<1> QED BY <1>1, <1>3, <1>5, <1>7

(* A state request that was read has an activity.                          *)
LEMMA InquiriesAreComplete == StateInquiries \subseteq Activities
<1> SUFFICES ASSUME NEW r \in StateRequests, ReadCurrentStateRequest(r) = "ok"
             PROVE  r.activityId \in Activities
  BY DEF StateInquiries
<1>1. r # NoJson
  BY NoJsonIsNotRead
<1>2. r.json = TRUE /\ r.activityId \in Activities \cup NoText
  BY <1>1 DEF StateRequests
<1>3. Verdict(Named(r)) = "ok"
  BY <1>2 DEF ReadCurrentStateRequest
<1> DEFINE a == Text(r.activityId)
           b == Filled(r.activityId, "logic error")
<1>4. a \in Verdicts /\ b \in Verdicts
  BY ChecksAreVerdicts DEF Verdicts
<1>5. Verdict(<<a, b>>) = "ok"
  BY <1>3 DEF Named
<1> HIDE DEF a, b
<1>6. <<a, b>> \in Seq(Verdicts) /\ Len(<<a, b>>) = 2
  BY <1>4
<1>7. a = "ok" /\ b = "ok"
  <2>1. \A i \in 1 .. 2 : <<a, b>>[i] = "ok"
    BY <1>5, <1>6, VerdictIsOk
  <2> QED BY <2>1
<1> QED BY <1>2, <1>7 DEF a, b, Text, Filled, NoText

(* A command that was read has an activity and is one of the five.         *)
LEMMA CommandsAreComplete ==
    ASSUME NEW c \in CommandsRead
    PROVE  /\ c.activityId \in Activities
           /\ c.event \in {"DownloadStart", "InstallStart", "Activate", "Cleanup", "Rollback"}
<1>1. PICK r \in Commands :
          ReadCommand(r) = "ok" /\ c = [activityId |-> r.activityId, event |-> CommandEvents[r.command]]
  BY DEF CommandsRead
<1>2. r # NoJson
  BY <1>1, NoJsonIsNotRead
<1>3. r.json = TRUE /\ r.activityId \in Activities \cup NoText
  BY <1>2 DEF Commands
<1>4. Verdict(Named(r) \o Known(r)) = "ok"
  BY <1>1, <1>3 DEF ReadCommand
<1>5. r.activityId \notin NoText /\ \A i \in 1 .. 2 : Known(r)[i] = "ok"
  BY <1>4, KnownIsSequence, NamedPasses
<1>6. r.command \in DOMAIN CommandEvents
  <2>1. 2 \in 1 .. 2
    OBVIOUS
  <2> QED BY <1>5, <2>1, KnownIsSequence
<1>7. CommandEvents[r.command] \in {"DownloadStart", "InstallStart", "Activate", "Cleanup", "Rollback"}
  BY <1>6 DEF CommandEvents
<1> QED BY <1>1, <1>3, <1>5, <1>7

(* The first check that fails gives the verdict.                           *)
LEMMA FirstFailureDecides ==
    ASSUME NEW checks \in Seq(Verdicts), NEW k \in 1 .. Len(checks), checks[k] # "ok",
           \A i \in 1 .. k - 1 : checks[i] = "ok"
    PROVE  Verdict(checks) = checks[k]
<1> DEFINE Failed == {i \in 1 .. Len(checks) : checks[i] # "ok"}
           first == SelectInSeq(checks, LAMBDA c : c # "ok")
<1>1. first = IF Failed # {} THEN Min(Failed) ELSE 0
  BY DEF SelectInSeq
<1>2. Len(checks) \in Nat /\ k \in Nat
  OBVIOUS
<1>3. k \in Failed
  BY <1>2
<1>4. ASSUME NEW i \in Failed PROVE i \in Nat /\ k <= i
  <2>1. i \in 1 .. Len(checks) /\ i \notin 1 .. k - 1
    OBVIOUS
  <2> QED BY <1>2, <2>1
<1>5. Min(Failed) = k
  <2> HIDE DEF Failed
  <2>1. \A x \in Failed : (\A y \in Failed : x <= y) => x = k
    BY <1>3, <1>4
  <2>2. \A y \in Failed : k <= y
    BY <1>4
  <2> QED BY <1>3, <2>1, <2>2 DEF Min
<1>6. first = k /\ k # 0
  BY <1>1, <1>3, <1>5
<1> QED BY <1>6 DEF Verdict

(* The case of the second check.                                           *)
LEMMA SecondFails ==
    ASSUME NEW checks \in Seq(Verdicts), Len(checks) >= 2,
           checks[1] = "ok", checks[2] # "ok"
    PROVE  Verdict(checks) = checks[2]
<1>1. 2 \in 1 .. Len(checks) /\ \A i \in 1 .. 2 - 1 : checks[i] = "ok"
  OBVIOUS
<1> QED BY <1>1, FirstFailureDecides

(* The same for two checks only.                                           *)
LEMMA SecondOfTwoFails ==
    ASSUME NEW a \in Verdicts, NEW b \in Verdicts, a = "ok", b # "ok"
    PROVE  Verdict(<<a, b>>) = b
<1> DEFINE checks == <<a, b>>
<1>1. checks \in Seq(Verdicts) /\ Len(checks) = 2 /\ checks[1] = a /\ checks[2] = b
  OBVIOUS
<1> HIDE DEF checks
<1>2. Len(checks) >= 2
  BY <1>1
<1>3. Verdict(checks) = b
  BY <1>1, <1>2, SecondFails
<1> QED BY <1>3 DEF checks

(* An empty activityId is a logic error, whatever else is wrong.           *)
LEMMA EmptyIsLogicError ==
    ASSUME NEW request, request.activityId = "empty", NEW more \in Seq(Verdicts)
    PROVE  Verdict(Named(request) \o more) = "logic error"
<1> DEFINE a == Text(request.activityId)
           b == Filled(request.activityId, "logic error")
           checks == <<a, b>> \o more
<1>1. a = "ok" /\ b = "logic error"
  BY DEF Text, Filled
<1>2. a \in Verdicts /\ b \in Verdicts
  BY <1>1 DEF Verdicts
<1> HIDE DEF a, b
<1>3. checks \in Seq(Verdicts) /\ Len(checks) = 2 + Len(more) /\ checks[1] = a /\ checks[2] = b
  BY <1>2, PairFirst
<1>4. Len(more) \in Nat
  OBVIOUS
<1> HIDE DEF checks
<1>5. Len(checks) >= 2
  BY <1>3, <1>4
<1>6. Verdict(checks) = "logic error"
  BY <1>1, <1>3, <1>5, SecondFails
<1> QED BY <1>6 DEF checks, a, b, Named

(* A refusal that is answered names an activity.                           *)
LEMMA AnswersAreNamed ==
    ASSUME NEW f \in Refusals,
           f.verdict \in {"json exception", "runtime error"},
           Text(f.activityId) = "ok"
    PROVE  f.activityId \in Activities
<1>1. f.activityId \notin {"missing", "mistyped"}
  BY DEF Text
<1>2. ASSUME NEW d \in DesiredStates, f = Refusal(d, ReadDesiredState(d))
      PROVE  f.activityId \in Activities
  <2>1. d # NoJson
    BY <1>2, NoJsonIsNotRead DEF Refusal
  <2>2. d.json = TRUE /\ d.activityId \in Activities \cup NoText
    BY <2>1, PlacesOfDesiredStates
  <2>3. f.activityId = d.activityId /\ f.verdict = Verdict(Named(d) \o Placed(d))
    BY <1>2, <2>2 DEF Refusal, ReadDesiredState
  <2>4. d.activityId # "empty"
    BY <2>3, EmptyIsLogicError, PlacedIsSequence
  <2> QED BY <1>1, <2>2, <2>3, <2>4 DEF NoText
<1>3. ASSUME NEW c \in Commands, f = Refusal(c, ReadCommand(c))
      PROVE  f.activityId \in Activities
  <2>1. c # NoJson
    BY <1>3, NoJsonIsNotRead DEF Refusal
  <2>2. c.json = TRUE /\ c.activityId \in Activities \cup NoText
    BY <2>1 DEF Commands
  <2>3. f.activityId = c.activityId /\ f.verdict = Verdict(Named(c) \o Known(c))
    BY <1>3, <2>2 DEF Refusal, ReadCommand
  <2>4. c.activityId # "empty"
    BY <2>3, EmptyIsLogicError, KnownIsSequence
  <2> QED BY <1>1, <2>2, <2>3, <2>4 DEF NoText
<1>4. ASSUME NEW q \in StateRequests, f = Refusal(q, ReadCurrentStateRequest(q))
      PROVE  f.activityId \in Activities
  <2>1. q # NoJson
    BY <1>4, NoJsonIsNotRead DEF Refusal
  <2>2. q.json = TRUE /\ q.activityId \in Activities \cup NoText
    BY <2>1 DEF StateRequests
  <2>3. f.activityId = q.activityId /\ f.verdict = Verdict(Named(q))
    BY <1>1, <1>4, <2>2 DEF Refusal, ReadCurrentStateRequest
  <2>4. ASSUME q.activityId = "empty" PROVE FALSE
    <3> DEFINE a == Text(q.activityId)
               b == Filled(q.activityId, "logic error")
    <3>1. a = "ok" /\ b = "logic error"
      BY <2>4 DEF Text, Filled
    <3>2. a \in Verdicts /\ b \in Verdicts
      BY <3>1 DEF Verdicts
    <3>3. Named(q) = <<a, b>>
      BY DEF Named
    <3> HIDE DEF a, b
    <3>5. Verdict(<<a, b>>) = "logic error"
      BY <3>1, <3>2, SecondOfTwoFails
    <3> QED BY <2>3, <3>3, <3>5
  <2> QED BY <1>1, <2>2, <2>3, <2>4 DEF NoText
<1> QED BY <1>2, <1>3, <1>4 DEF Refusals

----------------------------------------------------------------------------
(* The agent with its messages is the agent.                               *)

(* Every step of Feedback is one of SelfUpdateAgent.                       *)
LEMMA StepIsAgentStep ==
    ASSUME [FeedbackNext]_feedbackVars
    PROVE  [Next]_vars
<1>1. CASE UNCHANGED feedbackVars
  BY <1>1 DEF feedbackVars
<1>2. ASSUME NEW d \in Identifications, IdentifyRequest(d) PROVE Next
  BY <1>2, IdentificationsAreComplete DEF IdentifyRequest, Next, Request
<1>3. ASSUME NEW id \in StateInquiries, CurrentStateRequest(id) PROVE Next
  BY <1>3 DEF CurrentStateRequest, Next, Request
<1>4. ASSUME NEW c \in CommandsRead, Command(c) PROVE Next
  BY <1>4, CommandsAreComplete DEF Command, Next, Request
<1>5. ASSUME NEW f \in Refusals, Refuse(f) PROVE Next
  BY <1>5 DEF Refuse, Next, Request
<1>6. CASE Connectivity \/ BodyReturns \/ RaucWorks \/ Restart
  BY <1>6 DEF Connectivity, BodyReturns, RaucWorks, Restart, Next
<1> QED BY <1>1, <1>2, <1>3, <1>4, <1>5, <1>6 DEF FeedbackNext, message_arrived

(* Whatever SelfUpdateAgent promises is promised by the agent that reads   *)
(* its requests and writes its messages.                                   *)
THEOREM FeedbackIsAgent == FeedbackSpec => Spec
<1>1. FeedbackInit => Init
  BY DEF FeedbackInit
<1>2. [FeedbackNext]_feedbackVars => [Next]_vars
  BY StepIsAgentStep
<1> QED BY <1>1, <1>2, PTL DEF FeedbackSpec, Spec

(* Among it that the slots hold what the agent reports.                    *)
THEOREM FeedbackIsConsistent == FeedbackSpec => []Consistent
  BY FeedbackIsAgent, AlwaysConsistent, PTL

----------------------------------------------------------------------------
(* Activities.                                                             *)

Failures == {"", "DOWNLOAD_FAILURE", "UPDATE_FAILURE"}
Unaddressed == {"SystemVersion", "CurrentState"}

(* Only requests with an activity start a body or are answered.            *)
Addressed ==
    /\ FeedbackTypeOK
    /\ BodyAnswersItsRequest
    /\ busy # "none" => activity \in Activities
    /\ sent \subseteq Unaddressed \/ activity \in Activities

(* The remembered failure is one of the reported ones.                     *)
LEMMA FailingIsTyped ==
    ASSUME NEW messages, NEW before \in Failures
    PROVE  Failing(messages, before) \in Failures
BY DEF Failing, Failures

(* A request is remembered while no body waits.                            *)
LEMMA RememberAddressed ==
    ASSUME NEW id \in Activities, NEW before \in Failures,
           Remember(id, before), busy = "none"
    PROVE  Addressed'
<1>1. failure' \in Failures
  BY FailingIsTyped DEF Remember
<1>2. /\ activity' = id
      /\ startedBy' = IF busy' = "none" THEN "" ELSE id
  BY DEF Remember
<1> QED
  BY <1>1, <1>2 DEF Addressed, FeedbackTypeOK, BodyAnswersItsRequest, Failures

(* Every step keeps the activity given, and that of a waiting body.        *)
LEMMA StepAddressed ==
    ASSUME Addressed, TypeOK, [FeedbackNext]_feedbackVars
    PROVE  Addressed'
<1> USE DEF Addressed, FeedbackTypeOK, BodyAnswersItsRequest
<1>0. failure \in Failures /\ "" \in Failures
  BY DEF Failures
<1>1. CASE UNCHANGED feedbackVars
  BY <1>1 DEF feedbackVars, vars
<1>2. ASSUME NEW d \in Identifications, IdentifyRequest(d) PROVE Addressed'
  <2>1. busy = "none"
    BY <1>2 DEF IdentifyRequest, ReceiveDesiredState, Listening
  <2> QED
    BY <1>0, <1>2, <2>1, IdentificationsAreComplete, RememberAddressed DEF IdentifyRequest
<1>3. ASSUME NEW id \in StateInquiries, CurrentStateRequest(id) PROVE Addressed'
  <2>1. busy = "none"
    BY <1>3 DEF CurrentStateRequest, ReceiveStateRequest, Listening
  <2> QED
    BY <1>0, <1>3, <2>1, InquiriesAreComplete, RememberAddressed DEF CurrentStateRequest
<1>4. ASSUME NEW c \in CommandsRead, Command(c) PROVE Addressed'
  <2>1. busy = "none"
    BY <1>4, CommandsAreComplete
       DEF Command, ReceiveDownload, ReceiveUpdate, ReceiveActivate,
           ReceiveCleanup, ReceiveRollback, Listening
  <2> QED
    BY <1>0, <1>4, <2>1, CommandsAreComplete, RememberAddressed DEF Command
<1>5. ASSUME NEW f \in Refusals, Refuse(f) PROVE Addressed'
  <2>1. CASE f.verdict \in {"parse error", "logic error"}
    <3>1. /\ busy = "none" /\ busy' = "none" /\ sent' = {}
          /\ activity' = activity /\ startedBy' = ""
      BY <1>5, <2>1 DEF Refuse, ReceiveInvalidRequest, Listening, Remember
    <3>2. failure' \in Failures
      BY <1>0, <1>5, <2>1, FailingIsTyped DEF Refuse, Remember
    <3> QED BY <3>1, <3>2 DEF Failures
  <2>2. CASE /\ f.verdict \in {"json exception", "runtime error"}
             /\ Text(f.activityId) = "ok"
    <3>1. busy = "none" /\ Remember(f.activityId, failure)
      BY <1>5, <2>2 DEF Refuse, Answered, ReceiveInvalidRequest, Listening
    <3> QED BY <1>0, <2>2, <3>1, AnswersAreNamed, RememberAddressed
  <2>3. CASE /\ f.verdict \in {"json exception", "runtime error"}
             /\ Text(f.activityId) # "ok"
    <3>1. Crash /\ NewProcess
      BY <1>5, <2>3 DEF Refuse
    <3> QED BY <3>1 DEF Crash, StartAgent, NewProcess
  <2> QED BY <1>5, <2>1, <2>2, <2>3 DEF Refuse
<1>6. CASE Connectivity
  <2>1. /\ busy' = busy /\ sent' \subseteq Unaddressed
        /\ UNCHANGED <<activity, startedBy, failure>>
    BY <1>6
       DEF Connectivity, ConnectivityEstablished, ConnectivityLost, Dropped, Unaddressed
  <2> QED BY <2>1
<1>7. CASE BodyReturns
  <2>1. busy \in {"download", "install"} /\ Remember(activity, failure)
    BY <1>7 DEF BodyReturns, FinishDownload, FinishInstall
  <2>2. activity \in Activities /\ activity = startedBy
    BY <2>1
  <2>3. failure' \in Failures
    BY <1>0, <2>1, FailingIsTyped DEF Remember
  <2> QED BY <2>1, <2>2, <2>3 DEF Remember, Failures
<1>8. CASE RaucWorks
  BY <1>8
     DEF RaucWorks, RaucStartsWriting, RaucSucceeds, RaucFails, AgentVars
<1>9. CASE Restart
  BY <1>9 DEF Restart, Crash, Reboot, StartAgent, NewProcess
<1> QED
  BY <1>1, <1>2, <1>3, <1>4, <1>5, <1>6, <1>7, <1>8, <1>9
     DEF FeedbackNext, message_arrived

(* At any time the activities are those of the requests.                   *)
THEOREM AlwaysAddressed == FeedbackSpec => []Addressed
<1>1. FeedbackInit => Addressed
  BY DEF FeedbackInit, Init, Addressed, FeedbackTypeOK, BodyAnswersItsRequest
<1>2. Addressed /\ Consistent /\ [FeedbackNext]_feedbackVars => Addressed'
  BY StepAddressed DEF Consistent
<1> QED BY <1>1, <1>2, FeedbackIsConsistent, PTL DEF FeedbackSpec

(* Type correctness: an activity that is empty or cannot be read never     *)
(* gets into the context.                                                  *)
THEOREM FeedbackIsTyped == FeedbackSpec => []FeedbackTypeOK
<1>1. Addressed => FeedbackTypeOK
  BY DEF Addressed
<1> QED BY <1>1, AlwaysAddressed, PTL

(* A body that waits answers the request that started it.                  *)
THEOREM BodiesAnswer == FeedbackSpec => []BodyAnswersItsRequest
<1>1. Addressed => BodyAnswersItsRequest
  BY DEF Addressed
<1> QED BY <1>1, AlwaysAddressed, PTL

(* The activity in a message is that of the context.                       *)
LEMMA PublishedActivity ==
    ASSUME NEW message \in Messages \ Unaddressed
    PROVE  Published(message).activityId = activity
BY DEF Published, CreateMessage, Messages, Unaddressed, SystemVersion, Feedback, FeedbackOn

(* Every feedback names the activity of a request.                         *)
THEOREM FeedbackNamesActivity == FeedbackSpec => []FeedbackIsAddressed
<1>1. Addressed /\ Consistent => FeedbackIsAddressed
  BY PublishedActivity DEF Addressed, Consistent, TypeOK, FeedbackIsAddressed, Unaddressed
<1> QED BY <1>1, AlwaysAddressed, FeedbackIsConsistent, PTL

----------------------------------------------------------------------------
(* Versions.                                                               *)

(* What the last handler announced is still so.                            *)
Announced ==
    /\ "Installed" \in sent => fsm = "Installed" /\ desired.version = other
    /\ "Downloaded" \in sent => desired.version \in Versions

(* What a handler announces names what the slots hold.                     *)
LEMMA StepAnnounced ==
    ASSUME Consistent, Announced, [Next]_vars
    PROVE  Announced'
<1> USE DEF Announced
<1>1. CASE UNCHANGED vars
  BY <1>1 DEF vars, slots
<1>2. CASE sent' \cap {"Installed", "Downloaded"} = {}
  BY <1>2
<1>3. CASE FinishDownload
  BY <1>3 DEF FinishDownload, DownloadFails, Consistent, TypeOK
<1>4. CASE FinishInstall
  <2>1. CASE InstallationFails({})
    BY <1>2, <2>1
       DEF InstallationFails, EnterDownloading, BeginDownload, DownloadFails
  <2>2. CASE ~ InstallationFails({})
    <3>1. /\ sent' = {"Installed", "CurrentState"} /\ fsm' = "Installed"
          /\ desired' = desired /\ other' = other /\ raucResult = "ok" /\ busy = "install"
      BY <1>4, <2>2 DEF FinishInstall, EnterInstalled
    <3>2. desired.version = raucTarget /\ other = raucTarget
      BY <3>1 DEF Consistent, PollingMatchesRauc
    <3> QED BY <3>1, <3>2
  <2> QED BY <2>1, <2>2
<1>5. CASE RaucStartsWriting \/ RaucSucceeds \/ RaucFails
  <2>1. fsm # "Installed"
    BY <1>5
       DEF RaucStartsWriting, RaucSucceeds, RaucFails, Consistent, RaucRestsAfterInstall
  <2> QED
    BY <1>5, <2>1 DEF RaucStartsWriting, RaucSucceeds, RaucFails, AgentVars
<1>6. CASE ReceiveUpdate
  BY <1>2, <1>6
     DEF ReceiveUpdate, BeginInstall, RejectBundle, InstallationFails,
         EnterDownloading, BeginDownload, DownloadFails, Dropped
<1>7. CASE ReceiveDownload
  BY <1>2, <1>7
     DEF ReceiveDownload, BeginDownload, DownloadFails, CheckStream, Dropped
<1>8. ASSUME NEW v \in Versions, ReceiveDesiredState(v) PROVE Announced'
  BY <1>2, <1>8
     DEF ReceiveDesiredState, Identify, EnterDownloading, BeginDownload,
         DownloadFails, Dropped
<1>9. CASE \/ ReceiveStateRequest \/ ReceiveInvalidRequest \/ ReceiveActivate
           \/ ReceiveCleanup \/ ReceiveRollback
  BY <1>2, <1>9
     DEF ReceiveStateRequest, ReceiveInvalidRequest, ReceiveActivate, ActivateOther,
         ActivationFails, ReceiveCleanup, ReceiveRollback, Dropped
<1>10. CASE \/ ConnectivityEstablished \/ ConnectivityLost \/ Crash \/ Reboot
  BY <1>2, <1>10
     DEF ConnectivityEstablished, ConnectivityLost, Crash, Reboot, StartAgent, Dropped
<1> QED
  BY <1>1, <1>3, <1>4, <1>5, <1>6, <1>7, <1>8, <1>9, <1>10 DEF Next, Request

(* UPDATE_SUCCESS names what is in the other slot, for all faults.         *)
THEOREM SuccessIsNamed == FeedbackSpec => []SuccessNamesTheImage
<1>1. Init => Announced
  BY DEF Init, Announced
<1>2. Consistent /\ Announced /\ [Next]_vars => Announced'
  BY StepAnnounced
<1>3. \A message \in {"Installed", "Downloaded"} :
         Published(message).actions[1].version = desired.version
  BY DEF Published, CreateMessage, FeedbackOn
<1>4. Announced => SuccessNamesTheImage
  BY <1>3 DEF Announced, SuccessNamesTheImage
<1> QED BY <1>1, <1>2, <1>4, FeedbackIsAgent, AlwaysConsistent, PTL DEF Spec

----------------------------------------------------------------------------
(* Outcomes.                                                               *)

(* Where CLEANUP is taken, the status is the failure that was reported     *)
(* last, or it is UPDATE_SUCCESS and none was.                             *)
Told == IF desired.status = "UPDATE_SUCCESS" THEN failure = "" ELSE failure = desired.status

Outcome ==
    /\ fsm \in {"Failed", "Activating"} => Told
    /\ "Incomplete" \in sent => failure = desired.status
    /\ "Complete" \in sent => failure = "" /\ desired.status = "UPDATE_SUCCESS"

Closing == {"Incomplete", "Complete"}

UpdateFailures == {"Rejected", "InstallFailed", "ActivationFailed"}

(* What a step makes of the failure that was told.                         *)
LEMMA FailingReports ==
    ASSUME NEW messages, NEW before
    PROVE  /\ "DownloadFailed" \in messages => Failing(messages, before) = "DOWNLOAD_FAILURE"
           /\ "DownloadFailed" \notin messages =>
                 Failing(messages, before) =
                    IF messages \cap UpdateFailures # {} THEN "UPDATE_FAILURE"
                    ELSE IF "Activated" \in messages THEN "" ELSE before
<1>1. ASSUME "DownloadFailed" \in messages
      PROVE  Failing(messages, before) = "DOWNLOAD_FAILURE"
  BY <1>1 DEF Failing
<1>2. ASSUME "DownloadFailed" \notin messages, messages \cap UpdateFailures # {}
      PROVE  Failing(messages, before) = "UPDATE_FAILURE"
  BY <1>2 DEF Failing, UpdateFailures
<1>3. ASSUME "DownloadFailed" \notin messages, messages \cap UpdateFailures = {}
      PROVE  Failing(messages, before) = IF "Activated" \in messages THEN "" ELSE before
  BY <1>3 DEF Failing, UpdateFailures
<1> QED BY <1>1, <1>2, <1>3

(* A failed download is remembered, and its status with it.                *)
LEMMA DownloadFailsOutcome ==
    ASSUME NEW d, NEW before, DownloadFails(d, {}), desired = d, TypeOK,
           failure' = Failing(sent', before)
    PROVE  Outcome'
<1>1. desired'.status = "DOWNLOAD_FAILURE" /\ sent' = {"DownloadFailed"}
  BY DEF DownloadFails, TypeOK
<1>2. failure' = "DOWNLOAD_FAILURE"
  BY <1>1, FailingReports
<1> QED BY <1>1, <1>2 DEF Outcome, Told

(* A failed update of the slot, by whatever message it is told.            *)
LEMMA UpdateFailsOutcome ==
    ASSUME NEW before, failure' = Failing(sent', before),
           desired' = [desired EXCEPT !.status = "UPDATE_FAILURE"], TypeOK,
           sent' \cap UpdateFailures # {},
           "DownloadFailed" \notin sent', sent' \cap Closing = {}
    PROVE  Outcome'
<1>1. desired'.status = "UPDATE_FAILURE"
  BY DEF TypeOK
<1>2. failure' = "UPDATE_FAILURE"
  BY FailingReports
<1> QED BY <1>1, <1>2 DEF Outcome, Told, Closing

(* A step that leaves what was told, or leads to where CLEANUP is not taken*)
LEMMA QuietOutcome ==
    ASSUME Outcome, sent' \cap Closing = {},
           \/ fsm' \notin {"Failed", "Activating"}
           \/ fsm' = fsm /\ failure' = failure /\ desired' = desired
           \/ failure' = "" /\ desired'.status = ""
    PROVE  Outcome'
BY DEF Outcome, Told, Closing

(* Commands keep status and remembered failure in step.                    *)
LEMMA CommandOutcome ==
    ASSUME Consistent, Outcome, NEW c \in CommandsRead, Command(c)
    PROVE  Outcome'
<1> USE DEF Consistent
<1>0. failure' = Failing(sent', failure)
  BY DEF Command, Remember
<1>1. ASSUME NEW event, Dropped(event), UNCHANGED desired PROVE Outcome'
  <2>1. sent' = {} /\ fsm' = fsm
    BY <1>1 DEF Dropped
  <2>2. failure' = failure
    <3>1. "DownloadFailed" \notin sent' /\ "Activated" \notin sent' /\ sent' \cap UpdateFailures = {}
      BY <2>1 DEF UpdateFailures
    <3> QED BY <1>0, <3>1, FailingReports
  <2> QED BY <1>1, <2>1, <2>2, QuietOutcome
<1>2. CASE ReceiveDownload
  <2>1. CASE fsm' = "Downloading" /\ sent' \cap Closing = {}
    BY <2>1, QuietOutcome
  <2>2. CASE DownloadFails(desired, {})
    BY <1>0, <2>2, DownloadFailsOutcome
  <2>3. CASE Dropped("DownloadStart") /\ UNCHANGED desired
    BY <1>1, <2>3
  <2> QED
    BY <1>2, <2>1, <2>2, <2>3
       DEF ReceiveDownload, BeginDownload, CheckStream, Accepting, Closing
<1>3. CASE ReceiveUpdate
  <2>1. CASE fsm' = "Installing" /\ sent' \cap Closing = {}
    BY <2>1, QuietOutcome
  <2>2. CASE RejectBundle
    BY <1>0, <2>2, UpdateFailsOutcome DEF UpdateFailures, RejectBundle, Closing
  <2>3. CASE downloadMode /\ InstallationFails({"VersionChecking"})
    BY <1>0, <2>3, UpdateFailsOutcome DEF UpdateFailures, InstallationFails, Closing
  <2>4. CASE Dropped("InstallStart") /\ UNCHANGED desired
    BY <1>1, <2>4
  <2>5. fsm = "Installing" => downloadMode
    BY DEF OnlyDownloadModeInstalls
  <2> QED
    BY <1>3, <2>1, <2>2, <2>3, <2>4, <2>5
       DEF ReceiveUpdate, BeginInstall, Accepting, Closing
<1>4. CASE ReceiveActivate
  <2>1. CASE ActivateOther
    <3>1. desired'.status = "UPDATE_SUCCESS" /\ sent' = {"Activating", "Activated"}
      BY <2>1 DEF ActivateOther, TypeOK
    <3>2. failure' = ""
      <4>1. "DownloadFailed" \notin sent' /\ "Activated" \in sent' /\ sent' \cap UpdateFailures = {}
        BY <3>1 DEF UpdateFailures
      <4> QED BY <1>0, <4>1, FailingReports
    <3> QED BY <3>1, <3>2 DEF Outcome, Told
  <2>2. CASE ActivationFails
    BY <1>0, <2>2, UpdateFailsOutcome DEF UpdateFailures, ActivationFails, Closing
  <2>3. CASE Dropped("Activate") /\ UNCHANGED desired
    BY <1>1, <2>3
  <2> QED BY <1>4, <2>1, <2>2, <2>3 DEF ReceiveActivate
<1>5. CASE ReceiveCleanup
  <2>1. CASE /\ fsm \in Cleanable /\ fsm' = "Idle"
             /\ sent' = {"Cleaned", IF desired.status = "UPDATE_SUCCESS"
                                    THEN "Complete" ELSE "Incomplete"}
    <3>1. Told
      BY <2>1 DEF Outcome, Cleanable
    <3>2. failure' = failure
      <4>1. "DownloadFailed" \notin sent' /\ "Activated" \notin sent' /\ sent' \cap UpdateFailures = {}
        BY <2>1 DEF UpdateFailures
      <4> QED BY <1>0, <4>1, FailingReports
    <3>3. desired' = desired
      BY <1>5 DEF ReceiveCleanup
    <3> QED BY <2>1, <3>1, <3>2, <3>3 DEF Outcome, Told
  <2>2. CASE Dropped("Cleanup") /\ UNCHANGED desired
    BY <1>1, <2>2
  <2> QED BY <1>5, <2>1, <2>2 DEF ReceiveCleanup, Accepting
<1>6. CASE ReceiveRollback
  <2>1. CASE fsm' = "Idle" /\ sent' = {}
    BY <2>1, QuietOutcome
  <2>2. CASE Dropped("Rollback") /\ UNCHANGED desired
    BY <1>1, <2>2
  <2> QED BY <1>6, <2>1, <2>2 DEF ReceiveRollback
<1> QED
  BY <1>2, <1>3, <1>4, <1>5, <1>6, CommandsAreComplete DEF Command

(* A request that replaces the desired state leaves nothing to be told:    *)
(* also if it is dropped, the status and the failure go together.          *)
LEMMA NewRequestOutcome ==
    ASSUME Outcome, failure' = Failing(sent', ""),
           sent' \subseteq {"Identifying", "Identified", "Skipped", "SystemVersion"},
           desired'.status = ""
    PROVE  Outcome'
<1>1. /\ "DownloadFailed" \notin sent' /\ "Activated" \notin sent'
      /\ sent' \cap UpdateFailures = {}
  BY DEF UpdateFailures
<1>2. failure' = ""
  BY <1>1, FailingReports
<1>3. sent' \cap Closing = {}
  BY DEF Closing
<1> QED BY <1>2, <1>3, QuietOutcome

(* So does every other step.                                               *)
LEMMA StepOutcome ==
    ASSUME Consistent, Outcome, [FeedbackNext]_feedbackVars
    PROVE  Outcome'
<1> USE DEF Consistent
<1>1. CASE UNCHANGED feedbackVars
  BY <1>1 DEF feedbackVars, vars, Outcome, Told
<1>2. ASSUME NEW d \in Identifications, IdentifyRequest(d) PROVE Outcome'
  <2>1. d.version \in Versions
    BY IdentificationsAreComplete
  <2>2. fallbackMode = FALSE
    BY DEF OnlyDownloadModeInstalls
  <2>3. /\ NewDesired(d.version).status = "" /\ NewDesired(d.version).version = d.version
    BY <2>1, NewDesiredFresh
  <2>4. NewDesired(NewDesired(d.version).version) = NewDesired(d.version)
    BY <2>3
  <2>5. /\ desired' = NewDesired(d.version)
        /\ sent' \subseteq {"Identifying", "Identified", "Skipped"}
    BY <1>2, <2>2, <2>4
       DEF IdentifyRequest, ReceiveDesiredState, Identify, EnterDownloading, Dropped
  <2>6. failure' = Failing(sent', "")
    BY <1>2 DEF IdentifyRequest, Remember
  <2> QED BY <2>3, <2>5, <2>6, NewRequestOutcome
<1>3. ASSUME NEW id \in StateInquiries, CurrentStateRequest(id) PROVE Outcome'
  <2>1. desired'.status = "" /\ sent' \subseteq {"SystemVersion"}
    BY <1>3, NewDesiredFresh DEF CurrentStateRequest, ReceiveStateRequest, Dropped
  <2>2. failure' = Failing(sent', "")
    BY <1>3 DEF CurrentStateRequest, Remember
  <2> QED BY <2>1, <2>2, NewRequestOutcome
<1>4. ASSUME NEW c \in CommandsRead, Command(c) PROVE Outcome'
  BY <1>4, CommandOutcome
<1>5. ASSUME NEW f \in Refusals, Refuse(f) PROVE Outcome'
  <2>1. CASE ReceiveInvalidRequest /\ \E id : Remember(id, failure)
    <3>1. /\ sent' \subseteq {"Identifying", "IdentificationFailed"}
          /\ fsm' = fsm /\ desired' = desired
      BY <2>1 DEF ReceiveInvalidRequest
    <3>2. /\ "DownloadFailed" \notin sent' /\ "Activated" \notin sent'
          /\ sent' \cap UpdateFailures = {} /\ sent' \cap Closing = {}
      BY <3>1 DEF UpdateFailures, Closing
    <3>3. failure' = Failing(sent', failure)
      BY <2>1 DEF Remember
    <3>4. failure' = failure
      BY <3>2, <3>3, FailingReports
    <3> QED BY <3>1, <3>2, <3>4, QuietOutcome
  <2>2. CASE Crash
    BY <2>2, QuietOutcome DEF Crash, StartAgent
  <2> QED BY <1>5, <2>1, <2>2 DEF Refuse
<1>6. CASE Connectivity
  <2>1. /\ desired' = desired /\ failure' = failure
        /\ sent' \subseteq {"SystemVersion"}
        /\ fsm' \in {fsm, "Connected", "Uninitialized"}
    BY <1>6
       DEF Connectivity, ConnectivityEstablished, ConnectivityLost, Dropped
  <2>2. sent' \cap Closing = {}
    BY <2>1 DEF Closing
  <2> QED BY <2>1, <2>2, QuietOutcome
<1>7. CASE BodyReturns
  <2>1. failure' = Failing(sent', failure)
    BY <1>7 DEF BodyReturns, Remember
  <2>2. CASE fsm' \in {"Installing", "Installed"} /\ sent' \cap Closing = {}
    BY <2>2, QuietOutcome
  <2>3. CASE DownloadFails(desired, {})
    BY <2>1, <2>3, DownloadFailsOutcome
  <2>4. CASE downloadMode /\ InstallationFails({})
    BY <2>1, <2>4, UpdateFailsOutcome DEF UpdateFailures, InstallationFails, Closing
  <2>5. busy = "install" => downloadMode
    BY DEF OnlyDownloadModeInstalls, PollingMatchesRauc
  <2> QED
    BY <1>7, <2>2, <2>3, <2>4, <2>5
       DEF BodyReturns, FinishDownload, FinishInstall, EnterInstalled, Closing
<1>8. CASE RaucWorks
  BY <1>8
     DEF RaucWorks, RaucStartsWriting, RaucSucceeds, RaucFails, AgentVars, Outcome, Told
<1>9. CASE Restart
  <2>1. fsm' = "Uninitialized" /\ sent' = {}
    BY <1>9 DEF Restart, Crash, Reboot, StartAgent
  <2> QED BY <2>1, QuietOutcome
<1> QED
  BY <1>1, <1>2, <1>3, <1>4, <1>5, <1>6, <1>7, <1>8, <1>9
     DEF FeedbackNext, message_arrived

(* The closing message carries the outcome that was reported.              *)
THEOREM ClosingIsTrue == FeedbackSpec => []ClosingTellsTheOutcome
<1>1. FeedbackInit => Outcome
  BY DEF FeedbackInit, Init, Outcome
<1>2. Consistent /\ Outcome /\ [FeedbackNext]_feedbackVars => Outcome'
  BY StepOutcome
<1>3. \A message \in Closing : Published(message).actions[1].status = desired.status
  BY DEF Published, CreateMessage, FeedbackOn, LastAction, Closing
<1>4. Outcome => ClosingTellsTheOutcome
  BY <1>3 DEF Outcome, ClosingTellsTheOutcome, Closing
<1> QED BY <1>1, <1>2, <1>4, FeedbackIsConsistent, PTL DEF FeedbackSpec
=============================================================================
