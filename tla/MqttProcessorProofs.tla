------------------------- MODULE MqttProcessorProofs -------------------------
(* Theorems about MqttProcessor, for any number of threads and retries.    *)
EXTENDS MqttProcessor, SequenceTheorems, TLAPS

(* The table has 25 rows.                                                  *)
LEMMA TableSize == DOMAIN Table = 1 .. 25 /\ Len(Table) = 25
    BY DEF Table

(* Rows lead to states.                                                    *)
LEMMA RowsLeadToStates == \A i \in 1 .. 25 : Table[i].to \in StateNames
    BY DEF Table, On, OnOutput, StateNames

(* Only a loss of connectivity leads to Uninitialized.                     *)
LEMMA OnlyLossUninitializes == \A i \in 1 .. 25 :
    Table[i].to = "Uninitialized" => Table[i].when = "ConnectivityLost"
    BY DEF Table, On, OnOutput

(* Connected is entered by a connection only.                              *)
LEMMA ConnectedIsEntered == \A i \in 1 .. 25 :
    Table[i].to = "Connected" =>
        Table[i].when = "ConnectivityEstablished" \/ Table[i].from = "Connected"
    BY DEF Table, On, OnOutput

(* The states that leave themselves are entered by requests.               *)
LEMMA TransientIsEntered == \A i \in 1 .. 25 :
    Table[i].to \in {"SendCurrentState", "Cleaning"} =>
        Table[i].when \in {"GetCurrentState", "Cleanup"}
    BY DEF Table, On, OnOutput

(* The row of a new connection.                                            *)
LEMMA RowOfConnection == \A i \in 1 .. 25 :
    Table[i].when = "ConnectivityEstablished" =>
        Table[i].from = "Uninitialized" /\ Table[i].to = "Connected"
    BY DEF Table, On, OnOutput

(* The rows of a loss.                                                     *)
LEMMA RowsOfLoss == \A i \in 1 .. 25 :
    Table[i].when = "ConnectivityLost" => Table[i].to = "Uninitialized"
    BY DEF Table, On, OnOutput

(* The rows by which the transient states are left.                        *)
LEMMA RowsOfWaiting == \A i \in 1 .. 25 :
    Table[i].when = "Waiting" => Table[i].to = "Idle"
    BY DEF Table, On, OnOutput

(* Rows of these events do not ask the body.                               *)
LEMMA BodyIsNotAsked == \A i \in 1 .. 25 :
    Table[i].when \in {"ConnectivityEstablished", "ConnectivityLost", "Waiting"} =>
        Table[i].output = NotUsed
    BY DEF Table, On, OnOutput

(* There is no row without an event.                                       *)
LEMMA RowsHaveEvents == \A i \in 1 .. 25 : Table[i].when # "none"
    BY DEF Table, On, OnOutput

(* The rows by which these states are left exist.                          *)
LEMMA TableRows ==
    /\ Table[1].when = "ConnectivityEstablished" /\ Table[1].from = "Uninitialized"
    /\ Table[2].when = "ConnectivityLost" /\ Table[2].from = "Connected"
    /\ Table[20].when = "Waiting" /\ Table[20].from = "Cleaning"
    /\ Table[25].when = "Waiting" /\ Table[25].from = "SendCurrentState"
    BY DEF Table, On, OnOutput

----------------------------------------------------------------------------
(* Frames.                                                                 *)

Places == {"free", "look", "body", "enter", "after", "wait", "refuse"}

(* Requests and what handlers raise are events, Unset is an output.        *)
LEMMA Members ==
    /\ Requests \subseteq Events
    /\ {"ConnectivityEstablished", "ConnectivityLost", "Waiting", "none"} \subseteq Events
    /\ Unset \in Outputs
    BY DEF Events, Outputs

(* The bodies return outputs.                                              *)
LEMMA BodiesGiveOutputs == \A s \in StateNames : BodyOutputs(s) \subseteq Outputs
    BY DEF Outputs

(* The frames that the actions make are frames.                            *)
LEMMA FramesAreMade ==
    /\ Free \in Frames
    /\ \A callback \in Callbacks \cup {"message"}, event \in Events :
          Handling(callback, event) \in Frames
    /\ \A c \in Frames, at \in Places : [c EXCEPT !.at = at] \in Frames
    /\ \A c \in Frames, i \in 1 .. 25 : [c EXCEPT !.at = "body", !.row = i] \in Frames
    /\ \A c \in Frames, output \in Outputs :
          [c EXCEPT !.at = "look", !.output = output] \in Frames
    /\ [Free EXCEPT !.at = "refuse"] \in Frames
<1>1. Free \in Frames /\ [Free EXCEPT !.at = "refuse"] \in Frames
    BY Members, TableSize DEF Free, Frames
<1>2. \A callback \in Callbacks \cup {"message"}, event \in Events :
          Handling(callback, event) \in Frames
    BY Members, TableSize DEF Handling, Frames
<1>3. \A c \in Frames, at \in Places : [c EXCEPT !.at = at] \in Frames
    BY DEF Frames, Places
<1>4. \A c \in Frames, i \in 1 .. 25 : [c EXCEPT !.at = "body", !.row = i] \in Frames
  <2>1. 1 .. 25 \subseteq 0 .. Len(Table)
      BY TableSize
  <2>. QED BY <2>1 DEF Frames
<1>5. \A c \in Frames, output \in Outputs :
          [c EXCEPT !.at = "look", !.output = output] \in Frames
    BY DEF Frames
<1>. QED BY <1>1, <1>2, <1>3, <1>4, <1>5

(* A frame at another place is otherwise the same.                         *)
LEMMA PlacedFrame ==
    ASSUME NEW c \in Frames, NEW place \in Places
    PROVE  LET f == [c EXCEPT !.at = place] IN
           /\ f \in Frames /\ f.at = place /\ f.event = c.event
           /\ f.callback = c.callback /\ f.row = c.row /\ f.output = c.output
    BY FramesAreMade DEF Frames

(* A thread that moves is the only busy one, before and after.             *)
LEMMA Moves ==
    ASSUME TypeOK, NEW t \in Threads, NEW f \in Frames,
           \A s \in Threads : s # t => call[s].at = "free",
           Goto(t, f)
    PROVE  /\ call' \in [Threads -> Frames]
           /\ call'[t] = f
           /\ \A s \in Threads : s # t => call'[s] = call[s] /\ call'[s].at = "free"
           /\ OneCall'
    BY DEF TypeOK, Goto, OneCall

(* The same for a change of the place only.                                *)
LEMMA Continues ==
    ASSUME TypeOK, NEW t \in Threads, NEW place, Continue(t, place)
    PROVE  Goto(t, [call[t] EXCEPT !.at = place])
    BY DEF TypeOK, Continue, Goto

(* A busy thread is the only one.                                          *)
LEMMA Alone ==
    ASSUME OneCall, NEW t \in Threads, call[t].at # "free"
    PROVE  \A s \in Threads : s # t => call[s].at = "free"
    BY DEF OneCall

(* With a serial library a callback begins when every thread is free.      *)
LEMMA Begins ==
    ASSUME Serial, NEW t \in Threads, MayCall(t)
    PROVE  \A s \in Threads : call[s].at = "free"
    BY DEF MayCall

----------------------------------------------------------------------------
(* The initial state.                                                      *)
LEMMA InitIsOrderly ==
    ASSUME Init PROVE Orderly
<1>1. TypeOK
  <2>1. call \in [Threads -> Frames]
      BY FramesAreMade DEF Init
  <2>2. retries \in 0 .. MaxRetries + 1 /\ failures \in Nat /\ due \in Seq(Callbacks)
      BY RetriesAssumption DEF Init
  <2>. QED BY <2>1, <2>2 DEF Init, TypeOK, StateNames
<1>2. \A t \in Threads : call[t].at = "free" /\ call[t].row = 0
                         /\ call[t].event = "none" /\ call[t].callback = "message"
    BY DEF Init, Free
<1>3. OneCall /\ HandledInOrder
    BY <1>2 DEF OneCall, HandledInOrder
<1>4. EventsMatchCallbacks
    BY <1>2 DEF EventsMatchCallbacks, EventFits
<1>5. DueMatchesLink /\ UpIsHeard /\ ConnectedIsCurrent
    BY DEF Init, DueMatchesLink, UpIsHeard, ConnectedIsCurrent
<1>6. RetriesAreOfThisOutage
    BY <1>2, RetriesAssumption DEF Init, RetriesAreOfThisOutage, CountingFailure
<1>. QED BY <1>1, <1>3, <1>4, <1>5, <1>6 DEF Orderly

----------------------------------------------------------------------------
(* The library.                                                            *)

(* A change of the connection is told last.                                *)
LEMMA ReportKeepsOrder ==
    ASSUME TypeOK, DueMatchesLink, NEW c \in Callbacks, Report(c),
           link \in {"trying", "up"}, c = "connected" => link = "trying",
           link = "up" <=> c = "connection_lost",
           link' \in {"up", "down"}, link' = "up" <=> c = "connected"
    PROVE  /\ DueMatchesLink'
           /\ due' \in Seq(Callbacks) /\ due' # <<>>
           /\ NextIsLoss => NextIsLoss'
           /\ NextIsLoss' => NextIsLoss \/ due = <<>>
<1>0. due \in Seq(Callbacks) /\ due' = Append(due, c)
    BY DEF Report, TypeOK
<1>1. /\ due' \in Seq(Callbacks)
      /\ Len(due') = Len(due) + 1 /\ Len(due) \in Nat
      /\ due'[Len(due) + 1] = c
      /\ \A i \in 1 .. Len(due) : due'[i] = due[i]
      /\ due' # <<>>
    BY <1>0, AppendProperties
<1>2. due # <<>> => Len(due) >= 1
    BY <1>0, EmptySeq
<1>3. \A i \in 1 .. Len(due') - 1 : due'[i] = "connected" => due'[i + 1] = "connection_lost"
  <2>. SUFFICES ASSUME NEW i \in 1 .. Len(due), due[i] = "connected"
                PROVE  due'[i + 1] = "connection_lost"
      BY <1>1
  <2>1. CASE i < Len(due)
      BY <1>1, <2>1 DEF DueMatchesLink
  <2>2. CASE i = Len(due)
      BY <1>1, <1>2, <2>2 DEF DueMatchesLink
  <2>. QED BY <2>1, <2>2
<1>4. DueMatchesLink'
    BY <1>1, <1>3 DEF DueMatchesLink
<1>5. (NextIsLoss => NextIsLoss') /\ (NextIsLoss' => NextIsLoss \/ due = <<>>)
  <2>1. CASE due = <<>>
      BY <1>1, <2>1 DEF NextIsLoss
  <2>2. CASE due # <<>>
      BY <1>1, <1>2, <2>2 DEF NextIsLoss
  <2>. QED BY <2>1, <2>2
<1>. QED BY <1>1, <1>4, <1>5

(* Changes of the connection keep everything in order.                     *)
LEMMA LibraryKeepsOrder ==
    ASSUME Orderly, Succeed \/ Fail \/ Break
    PROVE  Orderly'
<1>1. /\ UNCHANGED <<fsm, retries, process, call, failures>>
      /\ link' \in {"up", "down"} /\ greeted' \in BOOLEAN
      /\ DueMatchesLink' /\ due' \in Seq(Callbacks) /\ due' # <<>>
      /\ NextIsLoss => NextIsLoss'
  <2>1. CASE Succeed
      BY <2>1, ReportKeepsOrder DEF Orderly, TypeOK, Succeed, Library, Callbacks
  <2>2. CASE Fail
      BY <2>2, ReportKeepsOrder DEF Orderly, TypeOK, Fail, Library, Callbacks
  <2>3. CASE Break
      BY <2>3, ReportKeepsOrder DEF Orderly, TypeOK, Break, Library, Callbacks
  <2>. QED BY <2>1, <2>2, <2>3
<1>2. TypeOK'
    BY <1>1 DEF Orderly, TypeOK
<1>3. OneCall' /\ EventsMatchCallbacks'
    BY <1>1 DEF Orderly, OneCall, EventsMatchCallbacks, EventFits
<1>4. UpIsHeard'
    BY <1>1 DEF UpIsHeard
<1>5. HandledInOrder'
    BY <1>1 DEF Orderly, HandledInOrder
<1>6. RetriesAreOfThisOutage'
    BY <1>1 DEF Orderly, RetriesAreOfThisOutage, CountingFailure, CountingLoss
<1>7. ConnectedIsCurrent'
    BY <1>1 DEF Orderly, ConnectedIsCurrent, Unheard
<1>. QED BY <1>1, <1>2, <1>3, <1>4, <1>5, <1>6, <1>7 DEF Orderly

(* So do attempts to connect.                                              *)
LEMMA DialKeepsOrder ==
    ASSUME Orderly, Redial \/ Connect
    PROVE  Orderly'
<1>1. /\ UNCHANGED <<due, fsm, retries, process, call, greeted, failures>>
      /\ link' = "trying" /\ link \in {"down", "none"}
    BY DEF Redial, Connect, Library
<1>2. NextIsLoss' <=> NextIsLoss
    BY <1>1 DEF NextIsLoss
<1>3. TypeOK'
    BY <1>1 DEF Orderly, TypeOK
<1>4. OneCall' /\ EventsMatchCallbacks' /\ HandledInOrder' /\ UpIsHeard' /\ DueMatchesLink'
    BY <1>1, <1>2 DEF Orderly, OneCall, EventsMatchCallbacks, EventFits, HandledInOrder,
                      UpIsHeard, DueMatchesLink
<1>5. RetriesAreOfThisOutage'
    BY <1>1, <1>2 DEF Orderly, RetriesAreOfThisOutage, CountingFailure, CountingLoss
<1>6. ConnectedIsCurrent'
    BY <1>1, <1>2 DEF Orderly, ConnectedIsCurrent, Unheard
<1>. QED BY <1>1, <1>3, <1>4, <1>5, <1>6 DEF Orderly

(* The end of the process keeps order, whatever ends it but retries.       *)
LEMMA EndKeepsOrder ==
    ASSUME Orderly, process = "running", End("aborted")
    PROVE  Orderly'
<1>1. /\ UNCHANGED <<link, due, fsm, retries, call, greeted, failures>>
      /\ process' = "aborted"
    BY DEF End
<1>2. NextIsLoss' <=> NextIsLoss
    BY <1>1 DEF NextIsLoss
<1>3. TypeOK'
    BY <1>1 DEF Orderly, TypeOK
<1>4. OneCall' /\ EventsMatchCallbacks' /\ HandledInOrder' /\ UpIsHeard' /\ DueMatchesLink'
    BY <1>1, <1>2 DEF Orderly, OneCall, EventsMatchCallbacks, EventFits, HandledInOrder,
                      UpIsHeard, DueMatchesLink, Unheard
<1>5. RetriesAreOfThisOutage'
    BY <1>1, <1>2 DEF Orderly, RetriesAreOfThisOutage, CountingFailure, CountingLoss
<1>6. ConnectedIsCurrent'
    BY <1>1, <1>2 DEF Orderly, ConnectedIsCurrent, Unheard
<1>. QED BY <1>1, <1>3, <1>4, <1>5, <1>6 DEF Orderly

----------------------------------------------------------------------------
(* Callbacks begin.                                                        *)

(* A callback about the connection is made.                                *)
LEMMA DeliverKeepsOrder ==
    ASSUME Serial, Orderly, NEW t \in Threads, Deliver(t)
    PROVE  Orderly'
<1>. DEFINE c == Head(due)
<1>1. /\ due \in Seq(Callbacks) /\ due # <<>> /\ c = due[1] /\ c \in Callbacks
      /\ due' = Tail(due) /\ due' \in Seq(Callbacks)
      /\ Len(due') = Len(due) - 1 /\ Len(due) \in Nat \ {0}
      /\ \A i \in 1 .. Len(due') : due'[i] = due[i + 1]
      /\ due' # <<>> => Len(due') >= 1
      /\ due' = <<>> => Len(due) = 1
  <2>1. due \in Seq(Callbacks) /\ due # <<>> /\ due' = Tail(due)
      BY DEF Deliver, Orderly, TypeOK
  <2>2. due' \in Seq(Callbacks) /\ c \in Callbacks /\ Len(due') = Len(due) - 1
        /\ \A i \in 1 .. Len(due') : due'[i] = due[i + 1]
      BY <2>1, HeadTailProperties
  <2>3. Len(due) \in Nat \ {0} /\ (due' # <<>> => Len(due') \in Nat \ {0})
      BY <2>1, <2>2, EmptySeq
  <2>4. due' = <<>> => Len(due) = 1
      BY <2>2, <2>3, EmptySeq
  <2>. QED BY <2>1, <2>2, <2>3, <2>4
<1>2. /\ UNCHANGED <<link, fsm, retries, process, greeted>>
      /\ failures' = IF c = "on_failure" THEN failures + 1 ELSE 0
      /\ process = "running"
    BY DEF Deliver, MayCall
<1>3. \A s \in Threads : call[s].at = "free"
    BY Begins DEF Deliver
<1>4. EventOf(c) \in Events
    BY Members DEF EventOf
<1>5. /\ call' \in [Threads -> Frames] /\ OneCall'
      /\ call'[t] = Handling(c, EventOf(c))
      /\ \A s \in Threads : s # t => call'[s] = call[s] /\ call'[s].at = "free"
  <2>1. Handling(c, EventOf(c)) \in Frames
      BY <1>1, <1>4, FramesAreMade
  <2>. QED BY <1>3, <2>1, Moves DEF Deliver, Orderly
<1>6. /\ call'[t].at = "look" /\ call'[t].callback = c /\ call'[t].event = EventOf(c)
      /\ call'[t].row = 0 /\ call'[t].output = Unset
    BY <1>5 DEF Handling
<1>7. Unheard(t)'
    BY <1>6 DEF Unheard
<1>8. c = "connected" => NextIsLoss'
  <2>. SUFFICES ASSUME c = "connected" PROVE NextIsLoss'
      OBVIOUS
  <2>1. CASE due' = <<>>
      BY <1>1, <1>2, <2>1 DEF NextIsLoss, Orderly, DueMatchesLink
  <2>2. CASE due' # <<>>
      BY <1>1, <1>2, <2>2 DEF NextIsLoss, Orderly, DueMatchesLink
  <2>. QED BY <2>1, <2>2
<1>9. TypeOK'
    BY <1>1, <1>2, <1>5 DEF Orderly, TypeOK
<1>10. EventsMatchCallbacks'
    BY <1>1, <1>5, <1>6 DEF Orderly, EventsMatchCallbacks, EventFits, EventOf, Callbacks
<1>11. DueMatchesLink'
    BY <1>1, <1>2 DEF Orderly, DueMatchesLink
<1>12. UpIsHeard'
  <2>. SUFFICES ASSUME due' = <<>>, link' = "up"
                PROVE  c = "connected"
      BY <1>5, <1>6, <1>7 DEF UpIsHeard, EventOf
  <2>. QED BY <1>1, <1>2 DEF Orderly, DueMatchesLink
<1>13. HandledInOrder'
    BY <1>5, <1>6, <1>8 DEF HandledInOrder
<1>14. RetriesAreOfThisOutage'
  <2>1. \A s \in Threads : ~CountingFailure(s) /\ ~CountingLoss(s)
      BY <1>3 DEF CountingFailure, CountingLoss
  <2>2. retries \in Nat /\ failures \in Nat
    <3>1. retries \in 0 .. MaxRetries + 1 /\ failures \in Nat
        BY DEF Orderly, TypeOK
    <3>. QED BY <3>1, RetriesAssumption
  <2>3. retries <= failures \/ NextIsLoss
      BY <2>1 DEF Orderly, RetriesAreOfThisOutage
  <2>4. process' # "gave up" /\ retries' <= MaxRetries
      BY <1>2 DEF Orderly, RetriesAreOfThisOutage
  <2>5. CASE c = "on_failure"
    <3>1. retries <= failures
        BY <1>1, <2>3, <2>5 DEF NextIsLoss
    <3>. QED BY <1>2, <1>5, <2>2, <2>4, <2>5, <3>1
                DEF RetriesAreOfThisOutage, CountingFailure
  <2>6. CASE c = "connection_lost"
    <3>1. CountingLoss(t)'
        BY <1>6, <2>6 DEF CountingLoss
    <3>2. \A s \in Threads : ~CountingFailure(s)'
        BY <1>5, <1>6, <2>6 DEF CountingFailure
    <3>. QED BY <2>4, <3>1, <3>2 DEF RetriesAreOfThisOutage
  <2>7. CASE c = "connected"
    <3>1. \A s \in Threads : ~CountingFailure(s)'
        BY <1>5, <1>6, <2>7 DEF CountingFailure
    <3>. QED BY <1>8, <2>4, <2>7, <3>1 DEF RetriesAreOfThisOutage
  <2>. QED BY <1>1, <2>5, <2>6, <2>7 DEF Callbacks
<1>15. ConnectedIsCurrent'
  <2>. SUFFICES ASSUME fsm = "Connected" PROVE ConnectedIsCurrent'
      BY <1>2 DEF ConnectedIsCurrent
  <2>1. c = "connection_lost"
      BY <1>1, <1>3 DEF Orderly, ConnectedIsCurrent, Unheard, NextIsLoss
  <2>2. due' = <<>> => link' # "up"
      BY <1>1, <1>2, <2>1 DEF Orderly, DueMatchesLink
  <2>. QED BY <1>6, <1>7, <2>1, <2>2 DEF ConnectedIsCurrent, EventOf
<1>. QED BY <1>5, <1>9, <1>10, <1>11, <1>12, <1>13, <1>14, <1>15 DEF Orderly

(* A message comes in: all threads were free, so nothing of the connection *)
(* is being handled.                                                       *)
LEMMA MessageKeepsOrder ==
    ASSUME Serial, Orderly, NEW t \in Threads, MayCall(t), link = "up",
           NEW f \in Frames, Goto(t, f),
           UNCHANGED <<link, due, fsm, retries, process, greeted, failures>>,
           f.callback = "message", f.at \in {"look", "refuse"}, f.row = 0,
           f.event \in Requests \cup {"none"}
    PROVE  Orderly'
<1>1. \A s \in Threads : call[s].at = "free"
    BY Begins
<1>2. /\ call' \in [Threads -> Frames] /\ OneCall' /\ call'[t] = f
      /\ \A s \in Threads : s # t => call'[s] = call[s] /\ call'[s].at = "free"
    BY <1>1, Moves DEF Orderly
<1>3. NextIsLoss' <=> NextIsLoss
    BY DEF NextIsLoss
<1>4. TypeOK'
    BY <1>2 DEF Orderly, TypeOK
<1>5. EventsMatchCallbacks'
    BY <1>2 DEF Orderly, EventsMatchCallbacks, EventFits, Callbacks
<1>6. DueMatchesLink'
    BY DEF Orderly, DueMatchesLink
<1>7. UpIsHeard'
    BY <1>1, <1>2 DEF Orderly, UpIsHeard, Unheard
<1>8. HandledInOrder'
    BY <1>2 DEF HandledInOrder
<1>9. RetriesAreOfThisOutage'
    BY <1>1, <1>2, <1>3 DEF Orderly, RetriesAreOfThisOutage, CountingFailure, CountingLoss
<1>10. ConnectedIsCurrent'
    BY <1>1, <1>2, <1>3 DEF Orderly, ConnectedIsCurrent, Unheard
<1>. QED BY <1>2, <1>4, <1>5, <1>6, <1>7, <1>8, <1>9, <1>10 DEF Orderly

----------------------------------------------------------------------------
(* FSM::handleEvent.                                                       *)

Moving == {"look", "body", "enter", "after"}

StillGreeted(t) ==
    /\ greeted' \in BOOLEAN
    /\ greeted => greeted'
    /\ call[t].at = "enter" /\ fsm = "Connected" /\ link = "up" => greeted'

(* A handler goes on without a transition.                                 *)
LEMMA HandlerKeepsOrder ==
    ASSUME Orderly, NEW t \in Threads, call[t].at \in Moving,
           NEW f \in Frames, Goto(t, f),
           UNCHANGED <<link, due, fsm, retries, process, failures>>,
           StillGreeted(t),
           f.callback = call[t].callback, EventFits(f),
           f.row # 0 /\ f.at \in {"look", "body"} =>
               Table[f.row].when = f.event /\ Table[f.row].from = fsm,
           f.at \in {"look", "body", "after"} \/ (f.at = "refuse" /\ f.callback = "message"),
           Unheard(t) /\ call[t].event = "ConnectivityEstablished" => fsm # "Uninitialized",
           Unheard(t) /\ call[t].event = "ConnectivityLost" => fsm # "Connected"
    PROVE  Orderly'
<1>1. \A s \in Threads : s # t => call[s].at = "free"
    BY Alone DEF Orderly, Moving
<1>2. /\ call' \in [Threads -> Frames] /\ OneCall' /\ call'[t] = f
      /\ \A s \in Threads : s # t => call'[s] = call[s] /\ call'[s].at = "free"
    BY <1>1, Moves DEF Orderly
<1>3. NextIsLoss' <=> NextIsLoss
    BY DEF NextIsLoss
<1>4. TypeOK'
    BY <1>2 DEF Orderly, TypeOK, StillGreeted
<1>5. EventsMatchCallbacks'
    BY <1>2 DEF Orderly, EventsMatchCallbacks, EventFits
<1>6. DueMatchesLink'
    BY DEF Orderly, DueMatchesLink
<1>7. UpIsHeard'
    BY <1>1, <1>2 DEF Orderly, UpIsHeard, Unheard, Moving
<1>8. HandledInOrder'
    BY <1>2, <1>3 DEF Orderly, HandledInOrder, Moving
<1>9. \A s \in Threads : (CountingFailure(s)' <=> CountingFailure(s))
                         /\ (CountingLoss(s)' <=> CountingLoss(s))
    BY <1>1, <1>2 DEF CountingFailure, CountingLoss, Moving
<1>10. RetriesAreOfThisOutage'
    BY <1>3, <1>9 DEF Orderly, RetriesAreOfThisOutage
<1>11. ConnectedIsCurrent'
    BY <1>1, <1>2, <1>3 DEF Orderly, ConnectedIsCurrent, Unheard, Moving, StillGreeted
<1>. QED BY <1>2, <1>4, <1>5, <1>6, <1>7, <1>8, <1>10, <1>11 DEF Orderly

(* The rows at which the loop stops are rows of the active state and of    *)
(* the event.                                                              *)
LEMMA StopsFit ==
    ASSUME Orderly, NEW t \in Threads, call[t].at = "look",
           NEW i \in Stops(call[t].row, fsm, call[t].event, call[t].output)
    PROVE  i \in 1 .. 25 /\ Table[i].from = fsm /\ Table[i].when = call[t].event
<1>1. i \in 1 .. 25
    BY TableSize DEF Stops
<1>2. CASE i = call[t].row
    BY <1>1, <1>2 DEF Orderly, EventsMatchCallbacks
<1>3. CASE i # call[t].row
    BY <1>1, <1>3 DEF Stops
<1>. QED BY <1>1, <1>2, <1>3

(* A fresh event finds a row of its state.                                 *)
LEMMA FreshStops ==
    ASSUME NEW t \in Threads, Unheard(t), NEW i \in 1 .. 25,
           Table[i].from = fsm, Table[i].when = call[t].event
    PROVE  i \in Stops(call[t].row, fsm, call[t].event, call[t].output)
    BY TableSize DEF Unheard, Stops

(* The loop goes on, and may change the state.                             *)
LEMMA LookKeepsOrder ==
    ASSUME Orderly, NEW t \in Threads, Look(t)
    PROVE  Orderly'
<1>. DEFINE stops == Stops(call[t].row, fsm, call[t].event, call[t].output)
            c == call[t]
<1>1. /\ c.at = "look" /\ process = "running" /\ c \in Frames
      /\ UNCHANGED <<link, due, retries, process, greeted, failures>>
    BY DEF Look, At, Orderly, TypeOK
<1>2. EventFits(c) /\ StillGreeted(t)
    BY <1>1 DEF Orderly, EventsMatchCallbacks, TypeOK, StillGreeted
<1>3. CASE stops = {} /\ Continue(t, "after") /\ UNCHANGED fsm
  <2>1. [c EXCEPT !.at = "after"] \in Frames
      BY <1>1, FramesAreMade DEF Places
  <2>2. Goto(t, [c EXCEPT !.at = "after"])
      BY <1>3, Continues DEF Orderly
  <2>3. Unheard(t) /\ c.event = "ConnectivityEstablished" => fsm # "Uninitialized"
      BY <1>3, TableRows, FreshStops
  <2>4. Unheard(t) /\ c.event = "ConnectivityLost" => fsm # "Connected"
      BY <1>3, TableRows, FreshStops
  <2>5. /\ [c EXCEPT !.at = "after"].at = "after"
        /\ [c EXCEPT !.at = "after"].callback = c.callback
        /\ [c EXCEPT !.at = "after"].event = c.event
      BY <1>1 DEF Frames
  <2>6. EventFits([c EXCEPT !.at = "after"])
      BY <1>2, <2>5 DEF EventFits
  <2>. HIDE DEF c
  <2>. QED BY <1>1, <1>2, <1>3, <2>1, <2>2, <2>3, <2>4, <2>5, <2>6, HandlerKeepsOrder
              DEF Moving, c
<1>4. ASSUME NEW i \in stops, Take(t, i)
      PROVE  Orderly'
  <2>1. i \in 1 .. 25 /\ Table[i].from = fsm /\ Table[i].when = c.event
      BY <1>1, StopsFit
  <2>2. fsm \in StateNames /\ Table[i].to \in StateNames
      BY <2>1, RowsLeadToStates DEF Orderly, TypeOK
  <2>3. CASE Table[i].output # NotUsed /\ c.output = Unset
    <3>. DEFINE f == [c EXCEPT !.at = "body", !.row = i]
    <3>1. Goto(t, f) /\ UNCHANGED fsm
        BY <1>4, <2>3 DEF Take
    <3>2. f \in Frames /\ f.at = "body" /\ f.row = i /\ f.event = c.event
          /\ f.callback = c.callback
        BY <1>1, <2>1, FramesAreMade DEF Frames
    <3>3. c.event \notin {"ConnectivityEstablished", "ConnectivityLost"}
        BY <2>1, <2>3, BodyIsNotAsked
    <3>4. EventFits(f)
        BY <1>2, <3>2 DEF EventFits
    <3>. HIDE DEF f
    <3>. QED BY <1>1, <1>2, <2>1, <3>1, <3>2, <3>3, <3>4, HandlerKeepsOrder DEF Moving
  <2>4. CASE ~(Table[i].output # NotUsed /\ c.output = Unset) /\ Table[i].to = fsm
    <3>. DEFINE f == [c EXCEPT !.at = "after"]
    <3>1. Goto(t, f) /\ UNCHANGED fsm
        BY <1>4, <2>4, Continues DEF Take, Orderly
    <3>2. f \in Frames /\ f.at = "after" /\ f.event = c.event /\ f.callback = c.callback
        BY <1>1, PlacedFrame DEF Places
    <3>3. /\ c.event = "ConnectivityEstablished" => fsm # "Uninitialized"
          /\ c.event = "ConnectivityLost" => fsm # "Connected"
        BY <2>1, <2>4, RowOfConnection, RowsOfLoss
    <3>4. EventFits(f)
        BY <1>2, <3>2 DEF EventFits
    <3>. HIDE DEF f
    <3>. QED BY <1>1, <1>2, <3>1, <3>2, <3>3, <3>4, HandlerKeepsOrder DEF Moving
  <2>5. CASE ~(Table[i].output # NotUsed /\ c.output = Unset) /\ Table[i].to # fsm
    <3>. DEFINE f == [c EXCEPT !.at = "enter"]
    <3>1. Goto(t, f) /\ fsm' = Table[i].to /\ fsm' # fsm
        BY <1>4, <2>5, Continues DEF Take, Orderly
    <3>2. f \in Frames /\ f.at = "enter" /\ f.event = c.event /\ f.callback = c.callback
        BY <1>1, PlacedFrame DEF Places
    <3>3. EventFits(f)
        BY <1>2, <3>2 DEF EventFits
    <3>. HIDE DEF f
    <3>4. \A s \in Threads : s # t => call[s].at = "free"
        BY <1>1, Alone DEF Orderly
    <3>5. /\ call' \in [Threads -> Frames] /\ OneCall' /\ call'[t] = f
          /\ \A s \in Threads : s # t => call'[s] = call[s] /\ call'[s].at = "free"
        BY <3>1, <3>2, <3>4, Moves DEF Orderly
    <3>6. NextIsLoss' <=> NextIsLoss
        BY <1>1 DEF NextIsLoss
    <3>7. TypeOK'
        BY <1>1, <2>2, <3>1, <3>5 DEF Orderly, TypeOK
    <3>8. fsm' = "Connected" => c.callback = "connected"
      <4>1. fsm' = "Connected" => c.event = "ConnectivityEstablished"
          BY <2>1, <3>1, ConnectedIsEntered
      <4>. QED BY <1>2, <4>1 DEF EventFits, Requests
    <3>9. fsm' \in {"SendCurrentState", "Cleaning"} => c.callback = "message"
      <4>1. fsm' \in {"SendCurrentState", "Cleaning"} => c.event \in {"GetCurrentState", "Cleanup"}
          BY <2>1, <3>1, TransientIsEntered
      <4>. QED BY <1>1, <1>2, <4>1 DEF EventFits, Frames, Callbacks
    <3>10. EventsMatchCallbacks'
      <4>1. \A s \in Threads : s # t => EventFits(call[s])
          BY DEF Orderly, EventsMatchCallbacks
      <4>2. \A s \in Threads : EventFits(call'[s])
          BY <3>3, <3>5, <4>1
      <4>. QED BY <3>2, <3>5, <3>8, <3>9, <4>2 DEF EventsMatchCallbacks, EventFits
    <3>11. DueMatchesLink'
        BY <1>1 DEF Orderly, DueMatchesLink
    <3>12. UpIsHeard'
      <4>1. fsm' = "Uninitialized" => c.callback \notin {"connected", "message"}
        <5>1. fsm' = "Uninitialized" => c.event = "ConnectivityLost"
            BY <2>1, <3>1, OnlyLossUninitializes
        <5>. QED BY <1>2, <5>1 DEF EventFits, Requests
      <4>. QED BY <1>1, <3>2, <3>4, <3>5, <4>1 DEF Orderly, UpIsHeard
    <3>13. HandledInOrder'
        BY <1>1, <3>2, <3>5, <3>6 DEF Orderly, HandledInOrder
    <3>14. \A s \in Threads : (CountingFailure(s)' <=> CountingFailure(s))
                              /\ (CountingLoss(s)' <=> CountingLoss(s))
        BY <1>1, <3>2, <3>4, <3>5 DEF CountingFailure, CountingLoss
    <3>15. RetriesAreOfThisOutage'
        BY <1>1, <3>6, <3>14 DEF Orderly, RetriesAreOfThisOutage
    <3>16. ConnectedIsCurrent'
        BY <1>1, <3>2, <3>5, <3>6, <3>8 DEF Orderly, HandledInOrder, ConnectedIsCurrent
    <3>. QED BY <3>5, <3>7, <3>10, <3>11, <3>12, <3>13, <3>15, <3>16 DEF Orderly
  <2>. QED BY <2>3, <2>4, <2>5
<1>. QED BY <1>3, <1>4 DEF Look

(* The body of the active state returns.                                   *)
LEMMA BodyKeepsOrder ==
    ASSUME Orderly, NEW t \in Threads, Body(t)
    PROVE  Orderly'
<1>. DEFINE c == call[t]
<1>1. /\ c.at = "body" /\ c \in Frames /\ EventFits(c) /\ fsm \in StateNames
      /\ c.row # 0 => Table[c.row].when = c.event /\ Table[c.row].from = fsm
      /\ UNCHANGED <<link, due, fsm, retries, process, greeted, failures>>
    BY DEF Body, At, Orderly, TypeOK, EventsMatchCallbacks
<1>2. PICK output \in BodyOutputs(fsm) : Goto(t, [c EXCEPT !.at = "look", !.output = output])
    BY DEF Body
<1>. DEFINE f == [c EXCEPT !.at = "look", !.output = output]
<1>3. /\ f \in Frames /\ f.at = "look" /\ f.event = c.event
      /\ f.callback = c.callback /\ f.row = c.row
    BY <1>1, <1>2, FramesAreMade, BodiesGiveOutputs DEF Frames
<1>4. EventFits(f)
    BY <1>1, <1>3 DEF EventFits
<1>5. ~Unheard(t) /\ StillGreeted(t)
    BY <1>1 DEF Unheard, Orderly, TypeOK, StillGreeted
<1>. HIDE DEF f
<1>. QED BY <1>1, <1>2, <1>3, <1>4, <1>5, HandlerKeepsOrder DEF Moving, f

(* onEnter of the active state returns.                                    *)
LEMMA EnterKeepsOrder ==
    ASSUME Orderly, NEW t \in Threads, Enter(t)
    PROVE  Orderly'
<1>. DEFINE c == call[t]
<1>1. /\ c.at = "enter" /\ c \in Frames /\ EventFits(c)
      /\ fsm \in {"SendCurrentState", "Cleaning"} => c.callback = "message"
      /\ UNCHANGED <<link, due, fsm, retries, process, failures>>
      /\ greeted \in BOOLEAN /\ link \in {"none", "trying", "up", "down"}
    BY DEF Enter, At, Orderly, TypeOK, EventsMatchCallbacks
<1>2. StillGreeted(t)
    BY <1>1 DEF Enter, Greets, StillGreeted
<1>3. ~Unheard(t)
    BY <1>1 DEF Unheard
<1>4. CASE fsm \in {"SendCurrentState", "Cleaning"}
  <2>. DEFINE f == Handling(c.callback, "Waiting")
  <2>1. Goto(t, f)
      BY <1>4 DEF Enter
  <2>2. f.at = "look" /\ f.callback = c.callback /\ f.event = "Waiting" /\ f.row = 0
      BY DEF Handling
  <2>3. f \in Frames
      BY <1>1, <1>4, FramesAreMade, Members
  <2>4. EventFits(f)
      BY <1>1, <1>4, <2>2 DEF EventFits, Callbacks
  <2>. HIDE DEF f
  <2>5. c.at \in Moving
      BY <1>1 DEF Moving
  <2>6. /\ f.at \in {"look", "body", "after"} \/ (f.at = "refuse" /\ f.callback = "message")
        /\ f.row # 0 /\ f.at \in {"look", "body"} =>
              Table[f.row].when = f.event /\ Table[f.row].from = fsm
      BY <2>2
  <2>. QED BY <1>1, <1>2, <1>3, <2>1, <2>2, <2>3, <2>4, <2>5, <2>6, HandlerKeepsOrder
<1>5. CASE fsm \notin {"SendCurrentState", "Cleaning"}
  <2>. DEFINE f == [c EXCEPT !.at = "after"]
  <2>1. Goto(t, f)
      BY <1>5, Continues DEF Enter, Orderly
  <2>2. f \in Frames /\ f.at = "after" /\ f.event = c.event /\ f.callback = c.callback
      BY <1>1, PlacedFrame DEF Places
  <2>3. EventFits(f)
      BY <1>1, <2>2 DEF EventFits
  <2>. HIDE DEF f
  <2>5. c.at \in Moving
      BY <1>1 DEF Moving
  <2>6. /\ f.at \in {"look", "body", "after"} \/ (f.at = "refuse" /\ f.callback = "message")
        /\ f.row # 0 /\ f.at \in {"look", "body"} =>
              Table[f.row].when = f.event /\ Table[f.row].from = fsm
      BY <2>2
  <2>. QED BY <1>1, <1>2, <1>3, <2>1, <2>2, <2>3, <2>5, <2>6, HandlerKeepsOrder
<1>. QED BY <1>4, <1>5

(* A send throws.                                                          *)
LEMMA SendThrowsKeepsOrder ==
    ASSUME Orderly, NEW t \in Threads, SendThrows(t)
    PROVE  Orderly'
<1>. DEFINE c == call[t]
<1>1. process = "running" /\ c.at \in {"body", "enter", "refuse"} /\ c \in Frames
      /\ greeted \in BOOLEAN /\ EventFits(c)
    BY DEF SendThrows, Sends, At, Orderly, TypeOK, EventsMatchCallbacks
<1>2. CASE c.callback = "message" /\ c.at # "refuse"
  <2>. DEFINE f == [c EXCEPT !.at = "refuse"]
  <2>1. /\ Goto(t, f)
        /\ UNCHANGED <<link, due, fsm, retries, process, greeted, failures>>
      BY <1>2, Continues DEF SendThrows, Orderly
  <2>2. f \in Frames /\ f.at = "refuse" /\ f.event = c.event /\ f.callback = c.callback
      BY <1>1, PlacedFrame DEF Places
  <2>3. EventFits(f)
      BY <1>1, <2>2 DEF EventFits
  <2>4. c.at = "enter" => fsm # "Connected"
      BY <1>2 DEF Orderly, EventsMatchCallbacks
  <2>5. ~Unheard(t) /\ StillGreeted(t)
      BY <1>1, <2>1, <2>4 DEF Unheard, StillGreeted
  <2>. HIDE DEF f
  <2>. QED BY <1>1, <1>2, <2>1, <2>2, <2>3, <2>4, <2>5, HandlerKeepsOrder DEF Moving
<1>3. CASE ~(c.callback = "message" /\ c.at # "refuse")
    BY <1>1, <1>3, EndKeepsOrder DEF SendThrows
<1>. QED BY <1>2, <1>3

----------------------------------------------------------------------------
(* After handleEvent.                                                      *)

(* A thread that has finished its handler waits or is free; retries and    *)
(* link may change with it.                                                *)
LEMMA FinishKeepsOrder ==
    ASSUME Orderly, NEW t \in Threads, Finish(t) \/ Refuse(t)
    PROVE  Orderly'
<1>. DEFINE c == call[t]
<1>1. /\ c.at \in {"after", "refuse"} /\ process = "running" /\ c \in Frames
      /\ UNCHANGED <<link, due, fsm, greeted, failures>>
    BY DEF Finish, Refuse, At, Orderly, TypeOK
<1>2. PICK f \in Frames :
         /\ Goto(t, f) /\ f.at \in {"free", "wait"} /\ EventFits(f)
         /\ f.callback \in {c.callback, "message"}
  <2>1. CASE Goto(t, Free)
      BY <2>1, FramesAreMade DEF Free, EventFits, Callbacks
  <2>2. CASE Continue(t, "wait")
    <3>. DEFINE g == [c EXCEPT !.at = "wait"]
    <3>1. Goto(t, g)
        BY <2>2, Continues DEF Orderly
    <3>2. g \in Frames /\ g.at = "wait" /\ g.event = c.event /\ g.callback = c.callback
        BY <1>1, PlacedFrame DEF Places
    <3>3. EventFits(g)
        BY <3>2 DEF EventFits, Orderly, EventsMatchCallbacks
    <3>. QED BY <3>1, <3>2, <3>3
  <2>. QED BY <2>1, <2>2 DEF Finish, Refuse
<1>3. \A s \in Threads : s # t => call[s].at = "free"
    BY <1>1, Alone DEF Orderly
<1>4. /\ call' \in [Threads -> Frames] /\ OneCall' /\ call'[t] = f
      /\ \A s \in Threads : s # t => call'[s] = call[s] /\ call'[s].at = "free"
    BY <1>2, <1>3, Moves DEF Orderly
<1>5. NextIsLoss' <=> NextIsLoss
    BY <1>1 DEF NextIsLoss
<1>6. retries \in 0 .. MaxRetries /\ failures \in Nat
  <2>1. retries \in 0 .. MaxRetries + 1 /\ failures \in Nat
      BY DEF Orderly, TypeOK
  <2>2. retries <= MaxRetries
      BY <1>1 DEF Orderly, RetriesAreOfThisOutage
  <2>. QED BY <2>1, <2>2, RetriesAssumption
<1>7. /\ process' \in {"running", "gave up"}
      /\ \/ process' = process /\ retries' = retries /\ ~CountingFailure(t) /\ ~CountingLoss(t)
         \/ process' = process /\ retries' = 0 /\ ~CountingFailure(t)
         \/ /\ CountingFailure(t) /\ retries' = retries + 1
            /\ process' = IF retries + 1 > MaxRetries THEN "gave up" ELSE process
  <2>1. CASE Refuse(t)
      BY <1>1, <2>1 DEF Refuse, At, CountingFailure, CountingLoss
  <2>2. CASE Finish(t)
      BY <1>1, <2>2 DEF Finish, At, CountingFailure, CountingLoss, RetriesAfterLoss, TooManyRetries
  <2>. QED BY <2>1, <2>2
<1>8. TypeOK'
  <2>1. retries' = retries \/ retries' = 0 \/ retries' = retries + 1
      BY <1>7
  <2>2. retries' \in 0 .. MaxRetries + 1
      BY <1>6, <2>1, RetriesAssumption
  <2>. QED BY <1>1, <1>4, <1>7, <2>2 DEF Orderly, TypeOK
<1>9. EventsMatchCallbacks'
    BY <1>1, <1>2, <1>4 DEF Orderly, EventsMatchCallbacks, EventFits
<1>10. DueMatchesLink'
    BY <1>1 DEF Orderly, DueMatchesLink
<1>11. UpIsHeard'
    BY <1>1, <1>2, <1>3, <1>4 DEF Orderly, UpIsHeard, Unheard
<1>12. HandledInOrder'
    BY <1>1, <1>2, <1>4, <1>5 DEF Orderly, HandledInOrder
<1>13. RetriesAreOfThisOutage'
  <2>1. \A s \in Threads : ~CountingFailure(s)' /\ ~CountingLoss(s)'
      BY <1>2, <1>4 DEF CountingFailure, CountingLoss
  <2>2. \A s \in Threads : CountingLoss(s) => s = t
      BY <1>3 DEF CountingLoss
  <2>3. retries \in Nat /\ (CountingFailure(t) => retries < failures)
        /\ (retries <= failures \/ NextIsLoss \/ CountingLoss(t))
    <3>1. retries \in Nat
        BY <1>6, RetriesAssumption
    <3>. QED BY <3>1, <2>2 DEF Orderly, RetriesAreOfThisOutage
  <2>4. retries' <= failures' \/ NextIsLoss'
    <3>1. CASE process' = process /\ retries' = retries /\ ~CountingLoss(t)
        BY <1>1, <1>5, <2>3, <3>1
    <3>2. CASE retries' = 0
        BY <1>1, <1>6, <3>2
    <3>3. CASE CountingFailure(t) /\ retries' = retries + 1
        BY <1>1, <1>6, <2>3, <3>3
    <3>. QED BY <1>7, <3>1, <3>2, <3>3
  <2>5. /\ process' = "gave up" => failures' > MaxRetries
        /\ process' # "gave up" => retries' <= MaxRetries
    <3>1. CASE process' = process /\ (retries' = retries \/ retries' = 0)
        BY <1>1, <1>6, <3>1, RetriesAssumption
    <3>2. CASE CountingFailure(t) /\ retries' = retries + 1
      <4>1. retries \in Nat /\ failures \in Nat /\ MaxRetries \in Nat /\ retries + 1 <= failures
          BY <1>6, <2>3, <3>2, RetriesAssumption
      <4>2. failures' = failures /\ process # "gave up"
          BY <1>1
      <4>3. process' = "gave up" => retries + 1 > MaxRetries
          BY <1>7, <3>2, <4>1, <4>2
      <4>4. process' # "gave up" => ~(retries + 1 > MaxRetries)
          BY <1>7, <3>2, <4>1, <4>2
      <4>5. ASSUME process' = "gave up" PROVE failures' > MaxRetries
        <5>1. retries + 1 > MaxRetries /\ failures' = failures
            BY <4>2, <4>3, <4>5
        <5>2. failures > MaxRetries
            BY <4>1, <5>1
        <5>. QED BY <5>1, <5>2
      <4>6. ASSUME process' # "gave up" PROVE retries' <= MaxRetries
        <5>1. retries' = retries + 1 /\ ~(retries + 1 > MaxRetries)
            BY <3>2, <4>4, <4>6
        <5>. QED BY <4>1, <5>1
      <4>. QED BY <4>5, <4>6
    <3>. QED BY <1>7, <3>1, <3>2
  <2>. QED BY <2>1, <2>4, <2>5 DEF RetriesAreOfThisOutage
<1>14. ConnectedIsCurrent'
    BY <1>1, <1>2, <1>3, <1>4, <1>5 DEF Orderly, ConnectedIsCurrent, Unheard
<1>. QED BY <1>4, <1>8, <1>9, <1>10, <1>11, <1>12, <1>13, <1>14 DEF Orderly

(* The callback connects again and is over.                                *)
LEMMA ReconnectKeepsOrder ==
    ASSUME Orderly, NEW t \in Threads, Reconnect(t)
    PROVE  Orderly'
<1>. DEFINE c == call[t]
<1>1. c.at = "wait" /\ process = "running"
    BY DEF Reconnect, At
<1>2. CASE End("aborted")
    BY <1>1, <1>2, EndKeepsOrder
<1>3. CASE /\ link' = (IF link = "down" THEN "trying" ELSE link)
           /\ Goto(t, Free)
           /\ UNCHANGED <<due, fsm, retries, process, greeted, failures>>
  <2>1. \A s \in Threads : s # t => call[s].at = "free"
      BY <1>1, Alone DEF Orderly
  <2>2. /\ call' \in [Threads -> Frames] /\ OneCall' /\ call'[t] = Free
        /\ \A s \in Threads : s # t => call'[s] = call[s] /\ call'[s].at = "free"
      BY <1>3, <2>1, FramesAreMade, Moves DEF Orderly
  <2>3. /\ Free.at = "free" /\ Free.event = "none" /\ Free.callback = "message"
        /\ Free.row = 0
      BY DEF Free
  <2>4. NextIsLoss' <=> NextIsLoss
      BY <1>3 DEF NextIsLoss
  <2>5. TypeOK'
      BY <1>3, <2>2 DEF Orderly, TypeOK
  <2>6. EventsMatchCallbacks'
      BY <1>3, <2>2, <2>3 DEF Orderly, EventsMatchCallbacks, EventFits, Callbacks
  <2>7. DueMatchesLink'
      BY <1>3 DEF Orderly, DueMatchesLink
  <2>8. UpIsHeard'
      BY <1>1, <1>3, <2>1, <2>2, <2>3 DEF Orderly, UpIsHeard, Unheard
  <2>9. HandledInOrder'
      BY <2>2, <2>3 DEF HandledInOrder
  <2>10. RetriesAreOfThisOutage'
      BY <1>1, <1>3, <2>1, <2>2, <2>3, <2>4
         DEF Orderly, RetriesAreOfThisOutage, CountingFailure, CountingLoss
  <2>11. ConnectedIsCurrent'
      BY <1>1, <1>3, <2>1, <2>2, <2>3, <2>4 DEF Orderly, ConnectedIsCurrent, Unheard
  <2>. QED BY <2>2, <2>5, <2>6, <2>7, <2>8, <2>9, <2>10, <2>11 DEF Orderly
<1>. QED BY <1>2, <1>3 DEF Reconnect

----------------------------------------------------------------------------
(* The theorems.                                                           *)

(* Every step keeps order.                                                 *)
LEMMA StepKeepsOrder ==
    ASSUME Serial, Orderly, [Next]_vars
    PROVE  Orderly'
<1>1. CASE Succeed \/ Fail \/ Break
    BY <1>1, LibraryKeepsOrder
<1>2. CASE Redial \/ Connect
    BY <1>2, DialKeepsOrder
<1>3. CASE Restart
  <2>1. Init'
      BY <1>3 DEF Restart, Init
  <2>2. (Init => Orderly)'
      BY InitIsOrderly, PTL
  <2>. QED BY <2>1, <2>2
<1>4. ASSUME NEW t \in Threads, Deliver(t) PROVE Orderly'
    BY <1>4, DeliverKeepsOrder
<1>5. ASSUME NEW t \in Threads, NEW request \in Requests, Receive(t, request) PROVE Orderly'
  <2>. DEFINE f == Handling("message", request)
  <2>1. f \in Frames
      BY FramesAreMade, Members
  <2>2. f.callback = "message" /\ f.at = "look" /\ f.row = 0 /\ f.event = request
      BY DEF Handling
  <2>. HIDE DEF f
  <2>3. /\ MayCall(t) /\ link = "up" /\ Goto(t, f)
        /\ UNCHANGED <<link, due, fsm, retries, process, greeted, failures>>
      BY <1>5 DEF Receive, MayCall, f
  <2>. QED BY <2>1, <2>2, <2>3, MessageKeepsOrder
<1>6. ASSUME NEW t \in Threads, ReceiveMalformed(t) PROVE Orderly'
  <2>. DEFINE f == [Free EXCEPT !.at = "refuse"]
  <2>1. f \in Frames
      BY FramesAreMade
  <2>2. f.callback = "message" /\ f.at = "refuse" /\ f.row = 0 /\ f.event = "none"
      BY DEF Free
  <2>. HIDE DEF f
  <2>3. /\ MayCall(t) /\ link = "up" /\ Goto(t, f)
        /\ UNCHANGED <<link, due, fsm, retries, process, greeted, failures>>
      BY <1>6 DEF ReceiveMalformed, MayCall, f
  <2>. QED BY <2>1, <2>2, <2>3, MessageKeepsOrder
<1>7. ASSUME NEW t \in Threads, ReceiveAnonymous(t) \/ SubscribeThrows(t) PROVE Orderly'
    BY <1>7, EndKeepsOrder DEF ReceiveAnonymous, SubscribeThrows, MayCall, At
<1>8. ASSUME NEW t \in Threads, Look(t) PROVE Orderly'
    BY <1>8, LookKeepsOrder
<1>9. ASSUME NEW t \in Threads, Body(t) PROVE Orderly'
    BY <1>9, BodyKeepsOrder
<1>10. ASSUME NEW t \in Threads, Enter(t) PROVE Orderly'
    BY <1>10, EnterKeepsOrder
<1>11. ASSUME NEW t \in Threads, SendThrows(t) PROVE Orderly'
    BY <1>11, SendThrowsKeepsOrder
<1>12. ASSUME NEW t \in Threads, Finish(t) \/ Refuse(t) PROVE Orderly'
    BY <1>12, FinishKeepsOrder
<1>13. ASSUME NEW t \in Threads, Reconnect(t) PROVE Orderly'
    BY <1>13, ReconnectKeepsOrder
<1>14. CASE UNCHANGED vars
  <2>1. UNCHANGED <<link, due, fsm, retries, process, call, greeted, failures>>
      BY <1>14 DEF vars
  <2>2. NextIsLoss' <=> NextIsLoss
      BY <2>1 DEF NextIsLoss
  <2>3. TypeOK' /\ OneCall' /\ EventsMatchCallbacks' /\ DueMatchesLink'
      BY <2>1 DEF Orderly, TypeOK, OneCall, EventsMatchCallbacks, EventFits, DueMatchesLink
  <2>4. UpIsHeard' /\ HandledInOrder'
      BY <2>1, <2>2 DEF Orderly, UpIsHeard, HandledInOrder, Unheard
  <2>5. RetriesAreOfThisOutage' /\ ConnectedIsCurrent'
      BY <2>1, <2>2 DEF Orderly, RetriesAreOfThisOutage, ConnectedIsCurrent, Unheard,
                        CountingFailure, CountingLoss
  <2>. QED BY <2>3, <2>4, <2>5 DEF Orderly
<1>. QED BY <1>1, <1>2, <1>3, <1>4, <1>5, <1>6, <1>7, <1>8, <1>9, <1>10, <1>11, <1>12,
            <1>13, <1>14 DEF Next, Step

(* With a library that makes one callback at a time, the invariant holds.  *)
THEOREM AlwaysOrderly == ASSUME Serial PROVE Spec => []Orderly
<1>1. Init => Orderly
    BY InitIsOrderly
<1>2. Orderly /\ [Next]_vars => Orderly'
    BY StepKeepsOrder
<1>. QED BY <1>1, <1>2, PTL DEF Spec

(* The counter of retries and everything else stay in their ranges.        *)
THEOREM ProcessorIsTyped == ASSUME Serial PROVE Spec => []TypeOK
<1>1. Orderly => TypeOK
    BY DEF Orderly
<1>. QED BY <1>1, AlwaysOrderly, PTL

(* On a standing connection the agent does not stay in Uninitialized.      *)
THEOREM AgentListens == ASSUME Serial PROVE Spec => []DeafOnlyWhileDisconnected
<1>1. Orderly => DeafOnlyWhileDisconnected
    BY DEF Orderly, UpIsHeard, Unheard, DeafOnlyWhileDisconnected, AtRest
<1>. QED BY <1>1, AlwaysOrderly, PTL

(* A connected agent has published its version on this connection.         *)
THEOREM AgentGreets == ASSUME Serial PROVE Spec => []ConnectedIsAnnounced
<1>1. Orderly => ConnectedIsAnnounced
    BY DEF Orderly, ConnectedIsCurrent, ConnectedIsAnnounced, AtRest
<1>. QED BY <1>1, AlwaysOrderly, PTL

(* The process gives up only after MAX_RETRIES failures in one outage.     *)
THEOREM OutagesAreSeparate == ASSUME Serial PROVE Spec => []GivesUpInOneOutage
<1>1. Orderly => GivesUpInOneOutage
    BY DEF Orderly, RetriesAreOfThisOutage, GivesUpInOneOutage
<1>. QED BY <1>1, AlwaysOrderly, PTL

(* While sends do not throw, the handler that entered a transient state is *)
(* the one that leaves it.                                                 *)
LEMMA TransientStaysHandled ==
    ASSUME Serial, "client" \notin Faults, Orderly, LeavingTransient, [Next]_vars
    PROVE  LeavingTransient'
<1>. USE DEF Transient
<1>1. CASE UNCHANGED <<fsm, call>>
    BY <1>1 DEF LeavingTransient, Unheard
<1>2. CASE fsm' \notin Transient
    BY <1>2 DEF LeavingTransient
<1>3. ASSUME NEW t \in Threads, MayCall(t), UNCHANGED fsm PROVE LeavingTransient'
  <2>1. fsm \notin Transient
      BY <1>3, Begins DEF LeavingTransient, Unheard
  <2>. QED BY <1>2, <1>3, <2>1
<1>4. ASSUME NEW t \in Threads, Look(t) PROVE LeavingTransient'
  <2>1. CASE fsm \in Transient
    <3>1. PICK s \in Threads :
             call[s].at = "enter" \/ (Unheard(s) /\ call[s].event = "Waiting")
        BY <2>1 DEF LeavingTransient
    <3>2. s = t /\ call[t].at = "look"
        BY <1>4, <3>1 DEF Look, At, Unheard, Orderly, OneCall
    <3>3. Unheard(t) /\ call[t].event = "Waiting"
        BY <3>1, <3>2
    <3>4. Stops(call[t].row, fsm, call[t].event, call[t].output) # {}
        BY <2>1, <3>3, TableRows, FreshStops
    <3>5. PICK i \in Stops(call[t].row, fsm, call[t].event, call[t].output) : Take(t, i)
        BY <1>4, <3>4 DEF Look
    <3>6. i \in 1 .. 25 /\ Table[i].when = "Waiting"
        BY <3>2, <3>3, <3>5, StopsFit
    <3>7. Table[i].output = NotUsed /\ Table[i].to = "Idle"
        BY <3>6, BodyIsNotAsked, RowsOfWaiting
    <3>8. fsm' = "Idle"
        BY <3>5, <3>7 DEF Take
    <3>. QED BY <1>2, <3>8
  <2>2. CASE fsm \notin Transient /\ fsm' \in Transient
    <3>1. PICK i \in Stops(call[t].row, fsm, call[t].event, call[t].output) : Take(t, i)
        BY <1>4, <2>2 DEF Look
    <3>2. fsm' = Table[i].to /\ Table[i].to # fsm /\ Continue(t, "enter")
        BY <2>2, <3>1 DEF Take
    <3>3. call'[t].at = "enter"
        BY <3>2 DEF Continue, Orderly, TypeOK, Frames
    <3>. QED BY <3>3 DEF LeavingTransient
  <2>. QED BY <1>2, <2>1, <2>2
<1>5. ASSUME NEW t \in Threads, Enter(t) PROVE LeavingTransient'
  <2>1. CASE fsm \in Transient
    <3>1. Goto(t, Handling(call[t].callback, "Waiting"))
        BY <1>5, <2>1 DEF Enter
    <3>2. call'[t] = Handling(call[t].callback, "Waiting")
        BY <3>1 DEF Goto, Orderly, TypeOK
    <3>3. Unheard(t)' /\ call'[t].event = "Waiting"
        BY <3>2 DEF Unheard, Handling
    <3>. QED BY <3>3 DEF LeavingTransient
  <2>2. CASE fsm \notin Transient
      BY <1>2, <1>5, <2>2 DEF Enter
  <2>. QED BY <2>1, <2>2
<1>6. ASSUME NEW t \in Threads, Body(t) \/ Finish(t) \/ Refuse(t) \/ Reconnect(t)
      PROVE  LeavingTransient'
  <2>1. call[t].at \in {"body", "after", "refuse", "wait"}
      BY <1>6 DEF Body, Finish, Refuse, Reconnect, At
  <2>2. fsm \notin Transient
      BY <2>1, Alone DEF LeavingTransient, Unheard, Orderly
  <2>3. fsm' = fsm
      BY <1>6 DEF Body, Finish, Refuse, Reconnect, End
  <2>. QED BY <1>2, <2>2, <2>3
<1>7. CASE Succeed \/ Fail \/ Break \/ Redial \/ Connect
    BY <1>1, <1>7 DEF Succeed, Fail, Break, Redial, Connect, Library
<1>8. CASE Restart
    BY <1>2, <1>8 DEF Restart
<1>9. CASE UNCHANGED vars
    BY <1>1, <1>9 DEF vars
<1>10. ASSUME NEW t \in Threads, ReceiveAnonymous(t) PROVE LeavingTransient'
    BY <1>1, <1>10 DEF ReceiveAnonymous, End
<1>11. \A t \in Threads : ~SendThrows(t) /\ ~SubscribeThrows(t)
    BY DEF SendThrows, SubscribeThrows
<1>12. ASSUME NEW t \in Threads,
              Deliver(t) \/ ReceiveMalformed(t) \/ \E request \in Requests : Receive(t, request)
       PROVE  LeavingTransient'
    BY <1>3, <1>12 DEF Deliver, ReceiveMalformed, Receive
<1>. QED BY <1>4, <1>5, <1>6, <1>7, <1>8, <1>9, <1>10, <1>11, <1>12 DEF Next, Step

(* SendCurrentState and Cleaning are left before the next callback, if no  *)
(* send throws in between.                                                 *)
THEOREM TransientStatesPass ==
    ASSUME Serial, "client" \notin Faults
    PROVE  Spec => []TransientStatesAreLeft
<1>1. Init => LeavingTransient
    BY DEF Init, LeavingTransient
<1>2. Orderly /\ LeavingTransient /\ [Next]_vars => LeavingTransient'
    BY TransientStaysHandled
<1>3. LeavingTransient => TransientStatesAreLeft
    BY DEF LeavingTransient, TransientStatesAreLeft, AtRest, Unheard
<1>. QED BY <1>1, <1>2, <1>3, AlwaysOrderly, PTL DEF Spec

----------------------------------------------------------------------------
(* Every transition is a row of the table from the state that is active,   *)
(* as long as the library makes one callback at a time.                    *)
THEOREM OnlyRowsAreTaken ==
    ASSUME Serial
    PROVE  Spec => TransitionsAreRows
<1>1. ASSUME Orderly, [Next]_vars, process = "running", fsm' # fsm
      PROVE  \E i \in DOMAIN Table : Table[i].from = fsm /\ Table[i].to = fsm'
  <2>1. ~Succeed /\ ~Fail /\ ~Break /\ ~Redial /\ ~Connect /\ ~Restart
      BY <1>1 DEF Succeed, Fail, Break, Redial, Connect, Library, Restart
  <2>2. PICK t \in Threads :
            \/ Deliver(t) \/ ReceiveMalformed(t) \/ ReceiveAnonymous(t) \/ Step(t)
            \/ \E request \in Requests : Receive(t, request)
      BY <1>1, <2>1 DEF Next, vars
  <2>3. Look(t)
      BY <1>1, <2>2
         DEF Deliver, Receive, ReceiveMalformed, ReceiveAnonymous, End, Step, Body,
             Enter, SendThrows, SubscribeThrows, Refuse, Finish, Reconnect
  <2>4. PICK i \in Stops(call[t].row, fsm, call[t].event, call[t].output) : Take(t, i)
      BY <1>1, <2>3 DEF Look
  <2>5. i \in 1 .. 25 /\ Table[i].from = fsm
      BY <1>1, <2>3, <2>4, StopsFit DEF Look, At
  <2>6. Table[i].to = fsm'
      BY <1>1, <2>4 DEF Take
  <2>. QED BY <2>5, <2>6, TableSize
<1>2. Orderly /\ [Next]_vars =>
          [process = "running" /\ fsm' # fsm =>
             \E i \in DOMAIN Table : Table[i].from = fsm /\ Table[i].to = fsm']_vars
    BY <1>1
<1>. QED BY <1>2, AlwaysOrderly, PTL DEF Spec, TransitionsAreRows
=============================================================================
