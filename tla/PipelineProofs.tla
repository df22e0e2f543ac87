--------------------------- MODULE PipelineProofs ---------------------------
(***************************************************************************)
(* No command, response or market event is lost, repeated or reordered     *)
(* between the threads, for every ring capacity, every number of commands  *)
(* and whatever the engine answers.  Sequences are joined in the order in  *)
(* which their entries pass; every step moves entries over a joint of the  *)
(* concatenation.  What the properties need beyond that is where the       *)
(* threads can be: Places says which of them have nothing in hand, and     *)
(* what main's order of stopping has ensured.                              *)
(***************************************************************************)
EXTENDS Pipeline, SequenceTheorems, TLAPS

(* Command numbers, and what the publisher adds to the feed. *)
Item == Nat \cup {"end_of_session"}

Typed ==
  /\ sent \in Nat
  /\ wire \in Seq(Item) /\ inbox \in Seq(Item) /\ cmds \in Seq(Item)
  /\ batch \in Seq(Item) /\ processed \in Seq(Item)
  /\ resps \in Seq(Item) /\ delivered \in Seq(Item) /\ responded \in Seq(Item)
  /\ events \in Seq(Item) /\ emitted \in Seq(Item)
  /\ published \in Seq(Item)
  /\ todo \in Seq({"resp", "event"})
  /\ lockFree \in BOOLEAN /\ cmdStopped \in BOOLEAN /\ feedStopped \in BOOLEAN

Places ==
  /\ inbox # << >> => gw = "read"
  /\ batch # << >> => eng \in {"process", "output", "notify"}
  /\ eng \in {"output", "notify"} => processed # << >>
  /\ eng = "dry" => lockFree
  /\ cmdStopped => gw = "done"
  /\ eng = "done" => cmdStopped /\ (~lockFree => cmds = << >>)
  /\ feedStopped => eng = "done"
  /\ pub \in {"final", "done"} => feedStopped

Commands == processed \o (batch \o (cmds \o (inbox \o wire)))

Feed ==
  /\ pub # "done" => published \o events = emitted
  /\ pub = "done" => events = << >> /\ published = Append(emitted, "end_of_session")

IInv ==
  /\ Typed /\ Places /\ Feed
  /\ Commands = [i \in 1 .. sent |-> i]
  /\ ResponsesInOrder

----------------------------------------------------------------------------
(* Sequences *)

(* Moving the first entry of one sequence to the end of the one before. *)
LEMMA MoveOne ==
  ASSUME NEW S, NEW s \in Seq(S), NEW t \in Seq(S), t # << >>
  PROVE  /\ Head(t) \in S /\ Tail(t) \in Seq(S)
         /\ Append(s, Head(t)) \in Seq(S)
         /\ Append(s, Head(t)) \o Tail(t) = s \o t
<1>1. /\ Head(t) \in S /\ Tail(t) \in Seq(S) /\ <<Head(t)>> \in Seq(S)
      /\ Append(s, Head(t)) \in Seq(S)
      /\ Append(s, Head(t)) = s \o <<Head(t)>>
  BY HeadTailProperties
<1>2. 1 \in 1 .. Len(t) /\ Len(t) \in 1 .. Len(t)
  BY EmptySeq
<1>3. SubSeq(t, 1, Len(t)) = <<t[1]>> \o SubSeq(t, 1 + 1, Len(t))
  BY <1>2, SubSeqRecursiveFirst
<1>4. t = <<Head(t)>> \o Tail(t)
  BY <1>3, SubSeqFull, TailIsSubSeq
<1> QED BY <1>1, <1>4, ConcatAssociative

(* Concatenation is associative. *)
LEMMA Associative == \A s, t, r \in Seq(Item) : (s \o t) \o r = s \o (t \o r)
  BY ConcatAssociative

(* The same in front of a third sequence. *)
LEMMA Slide ==
  \A s, t, r \in Seq(Item) :
     t # << >> => Append(s, Head(t)) \o (Tail(t) \o r) = s \o (t \o r)
<1> TAKE s, t, r \in Seq(Item)
<1> HAVE t # << >>
<1>1. /\ Tail(t) \in Seq(Item) /\ Append(s, Head(t)) \in Seq(Item)
      /\ Append(s, Head(t)) \o Tail(t) = s \o t
  BY MoveOne
<1>2. Append(s, Head(t)) \o (Tail(t) \o r) = (Append(s, Head(t)) \o Tail(t)) \o r
  BY <1>1, Associative, Zenon
<1>3. (s \o t) \o r = s \o (t \o r)
  BY Associative, Zenon
<1> QED BY <1>1, <1>2, <1>3, Zenon

(* Appending commutes with what stands before. *)
LEMMA AppendBehind ==
  \A s, t \in Seq(Item) : \A e \in Item : s \o Append(t, e) = Append(s \o t, e)
<1> TAKE s, t \in Seq(Item)
<1> TAKE e \in Item
<1>1. /\ Append(t, e) = t \o <<e>> /\ <<e>> \in Seq(Item) /\ s \o t \in Seq(Item)
      /\ Append(s \o t, e) = (s \o t) \o <<e>>
  BY ConcatProperties
<1>2. (s \o t) \o <<e>> = s \o (t \o <<e>>)
  BY <1>1, Associative, Zenon
<1> QED BY <1>1, <1>2, Zenon

(* The numbers of one more command. *)
LEMMA Numbered ==
  ASSUME NEW n \in Nat
  PROVE  Append([i \in 1 .. n |-> i], n + 1) = [i \in 1 .. n + 1 |-> i]
  OBVIOUS

----------------------------------------------------------------------------
(* The invariant *)

(* The threads as they start. *)
LEMMA InitIInv == Init => IInv
<1> SUFFICES ASSUME Init PROVE IInv
  OBVIOUS
<1>1. Typed /\ Places
  BY EmptySeq DEF Init, Typed, Places
<1>2. << >> \o << >> = << >> /\ [i \in 1 .. 0 |-> i] = << >>
  BY EmptySeq, ConcatEmptySeq
<1>3. Feed /\ ResponsesInOrder /\ Commands = [i \in 1 .. sent |-> i]
  BY <1>2 DEF Init, Feed, ResponsesInOrder, Commands
<1> QED BY <1>1, <1>3 DEF IInv

(* Outputs carry the number of the command being handled. *)
LEMMA LastTyped ==
  ASSUME Typed, Places, eng \in {"output", "notify"}
  PROVE  Last(processed) \in Item
<1>1. Len(processed) \in 1 .. Len(processed)
  BY EmptySeq DEF Typed, Places
<1>2. processed[Len(processed)] \in Item
  BY <1>1, ElementOfSeq DEF Typed
<1> QED BY <1>2 DEF Last

(* Every action keeps the queues sequences of command numbers. *)
LEMMA StepTyped == Typed /\ Places /\ [Next]_vars => Typed'
<1> SUFFICES ASSUME Typed, Places, [Next]_vars PROVE Typed'
  OBVIOUS
<1> USE DEF Typed
<1>1. CASE ClientSends
  <2>1. sent + 1 \in Item
    BY DEF Item
  <2> QED BY <1>1, <2>1 DEF ClientSends, gwVars, cmdVars, engVars, respVars, feedVars
<1>2. CASE Gateway
  <2> USE DEF envVars, cmdVars, engVars, respVars, feedVars
  <2>1. CASE GwPump
    BY <2>1, ConcatProperties, EmptySeq DEF GwPump
  <2>2. CASE GwRead
    BY <2>2, EmptySeq DEF GwRead
  <2>3. CASE GwPush
    <3>1. Tail(inbox) \in Seq(Item) /\ Append(cmds, Head(inbox)) \in Seq(Item)
      BY <2>3, MoveOne DEF GwPush
    <3> QED BY <2>3, <3>1 DEF GwPush
  <2> QED BY <1>2, <2>1, <2>2, <2>3 DEF Gateway, GwTop, GwPoll, GwDispatch, GwReadWake
<1>3. CASE Engine
  <2> USE DEF envVars, gwVars, cmdVars, respVars, feedVars
  <2>1. CASE EngDrain
    BY <2>1, EmptySeq DEF EngDrain
  <2>2. CASE EngPop
    <3>1. cmds # << >> => Head(cmds) \in Item /\ Tail(cmds) \in Seq(Item)
      BY HeadTailProperties
    <3>2. cmds # << >> => <<Head(cmds)>> \in Seq(Item)
      BY <3>1
    <3> QED BY <2>2, <3>1, <3>2 DEF EngPop
  <2>3. CASE EngProcess
    <3>1. batch # << >> => /\ Tail(batch) \in Seq(Item)
                           /\ Append(processed, Head(batch)) \in Seq(Item)
      BY MoveOne
    <3>2. todo' \in Outputs => todo' \in Seq({"resp", "event"})
      BY PipelineAssumption
    <3> QED BY <2>3, <3>1, <3>2 DEF EngProcess
  <2>4. eng \in {"output", "notify"} => Last(processed) \in Item
    BY LastTyped
  <2>5. CASE EngRespond
    BY <2>4, <2>5, HeadTailProperties DEF EngRespond
  <2>6. CASE EngEmit
    BY <2>4, <2>6, HeadTailProperties DEF EngEmit
  <2> QED BY <1>3, <2>1, <2>2, <2>3, <2>5, <2>6
             DEF Engine, EngCheckStop, EngNotify, EngNextCommand
<1>4. CASE Publisher
  <2> USE DEF envVars, gwVars, cmdVars, engVars, respVars
  <2>2. published \o events \in Seq(Item)
    BY ConcatProperties
  <2>3. Append(published \o events, "end_of_session") \in Seq(Item)
    BY <2>2 DEF Item
  <2>4. CASE PubDrain
    BY <2>2, <2>4, EmptySeq DEF PubDrain
  <2>5. CASE PubFinal
    BY <2>3, <2>5, EmptySeq DEF PubFinal
  <2> QED BY <1>4, <2>4, <2>5 DEF Publisher, PubCheckStop
<1>5. CASE MainStopGateway \/ MainStops
  BY <1>5 DEF MainStopGateway, MainStops, MainWakeGateway, MainStopEngine, MainStopFeed,
       MainReturn, envVars, gwVars, cmdVars, engVars, respVars, feedVars
<1>6. CASE UNCHANGED vars
  BY <1>6 DEF vars
<1> QED BY <1>1, <1>2, <1>3, <1>4, <1>5, <1>6 DEF Next, Exited

(* Where the threads can be. *)
LEMMA StepPlaces == Typed /\ Places /\ [Next]_vars => Places'
<1> SUFFICES ASSUME Typed, Places, [Next]_vars PROVE Places'
  OBVIOUS
<1> USE DEF Places
<1>1. CASE ClientSends
  BY <1>1 DEF ClientSends, gwVars, cmdVars, engVars, respVars, feedVars
<1>2. CASE Gateway
  <2> USE DEF envVars, cmdVars, engVars, respVars, feedVars
  <2>1. CASE GwPush
    BY <2>1 DEF GwPush
  <2>2. CASE GwRead
    BY <2>2 DEF GwRead
  <2> QED BY <1>2, <2>1, <2>2 DEF Gateway, GwTop, GwPoll, GwDispatch, GwReadWake, GwPump
<1>3. CASE Engine
  <2> USE DEF envVars, gwVars, cmdVars, respVars, feedVars
  <2>1. CASE EngDrain
    BY <2>1 DEF EngDrain
  <2>2. CASE EngPop
    BY <2>2 DEF EngPop
  <2>3. CASE EngProcess
    <3>1. Len(Append(processed, Head(batch))) = Len(processed) + 1 /\ Len(processed) \in Nat
      BY LenProperties DEF Typed
    <3>2. Append(processed, Head(batch)) # << >>
      BY <3>1
    <3> QED BY <2>3, <3>2 DEF EngProcess
  <2> QED BY <1>3, <2>1, <2>2, <2>3
             DEF Engine, EngCheckStop, EngRespond, EngNotify, EngEmit, EngNextCommand
<1>4. CASE Publisher
  BY <1>4 DEF Publisher, PubDrain, PubCheckStop, PubFinal,
       envVars, gwVars, cmdVars, engVars, respVars
<1>5. CASE MainStopGateway \/ MainStops
  BY <1>5 DEF MainStopGateway, MainStops, MainWakeGateway, MainStopEngine, MainStopFeed,
       MainReturn, envVars, gwVars, cmdVars, engVars, respVars, feedVars
<1>6. CASE UNCHANGED vars
  BY <1>6 DEF vars
<1> QED BY <1>1, <1>2, <1>3, <1>4, <1>5, <1>6 DEF Next, Exited

(* Commands move from the socket to the engine and keep their order. *)
LEMMA StepCommands ==
  Typed /\ Places /\ Commands = [i \in 1 .. sent |-> i] /\ [Next]_vars
    => (Commands = [i \in 1 .. sent |-> i])'
<1> SUFFICES ASSUME Typed, Places, Commands = [i \in 1 .. sent |-> i], [Next]_vars
             PROVE  (Commands = [i \in 1 .. sent |-> i])'
  OBVIOUS
<1> DEFINE back == inbox \o wire
           rest == cmds \o back
<1>1. back \in Seq(Item) /\ rest \in Seq(Item) /\ batch \o rest \in Seq(Item)
  BY ConcatProperties DEF Typed
<1>2. CASE ClientSends
  <2> DEFINE e == sent + 1
  <2>1. /\ wire' = Append(wire, e) /\ sent' = e
        /\ UNCHANGED <<inbox, cmds, batch, processed>>
    BY <1>2 DEF ClientSends, gwVars, cmdVars, engVars
  <2>2. e \in Item
    BY DEF Typed, Item
  <2> HIDE DEF e
  <2>3. inbox \o Append(wire, e) = Append(back, e)
    BY <2>2, AppendBehind, Zenon DEF Typed
  <2> HIDE DEF back
  <2>4. cmds \o Append(back, e) = Append(rest, e)
    BY <1>1, <2>2, AppendBehind, Zenon DEF Typed
  <2> HIDE DEF rest
  <2>5. batch \o Append(rest, e) = Append(batch \o rest, e)
    BY <1>1, <2>2, AppendBehind, Zenon DEF Typed
  <2>6. processed \o Append(batch \o rest, e) = Append(processed \o (batch \o rest), e)
    BY <1>1, <2>2, AppendBehind, Zenon DEF Typed
  <2>7. Append([i \in 1 .. sent |-> i], sent + 1) = [i \in 1 .. sent + 1 |-> i]
    BY Numbered DEF Typed
  <2> QED BY <2>1, <2>3, <2>4, <2>5, <2>6, <2>7 DEF Commands, back, rest, e
<1>3. CASE GwRead
  <2>1. /\ inbox = << >> /\ inbox' = wire /\ wire' = << >>
        /\ UNCHANGED <<sent, cmds, batch, processed>>
    BY <1>3 DEF GwRead, cmdVars, engVars
  <2>2. << >> \o wire = wire /\ wire \o << >> = wire
    BY ConcatEmptySeq DEF Typed
  <2> QED BY <2>1, <2>2 DEF Commands
<1>4. CASE GwPush
  <2>1. /\ inbox # << >> /\ cmds' = Append(cmds, Head(inbox)) /\ inbox' = Tail(inbox)
        /\ UNCHANGED <<sent, wire, batch, processed>>
    BY <1>4 DEF GwPush, envVars, engVars
  <2>2. cmds \in Seq(Item) /\ inbox \in Seq(Item) /\ wire \in Seq(Item) /\ inbox # << >>
    BY <2>1 DEF Typed
  <2>3. Append(cmds, Head(inbox)) \o (Tail(inbox) \o wire) = cmds \o (inbox \o wire)
    BY <2>2, Slide, Zenon
  <2> QED BY <2>1, <2>3 DEF Commands
<1>5. CASE EngDrain
  <2>1. /\ batch = << >> /\ batch' = cmds /\ cmds' = << >>
        /\ UNCHANGED <<sent, wire, inbox, processed>>
    BY <1>5 DEF EngDrain, Places, envVars, gwVars
  <2>2. << >> \o rest = rest /\ << >> \o back = back
    BY <1>1, ConcatEmptySeq
  <2> QED BY <2>1, <2>2 DEF Commands
<1>6. CASE EngPop
  <2>1. /\ batch = << >> /\ UNCHANGED <<sent, wire, inbox, processed>>
        /\ \/ UNCHANGED <<batch, cmds>>
           \/ cmds # << >> /\ batch' = <<Head(cmds)>> /\ cmds' = Tail(cmds)
    BY <1>6 DEF EngPop, Places, envVars, gwVars
  <2>2. Append(<< >>, Head(cmds)) = <<Head(cmds)>>
    OBVIOUS
  <2>3. << >> \in Seq(Item) /\ cmds \in Seq(Item) /\ back \in Seq(Item)
    BY <1>1, EmptySeq DEF Typed
  <2> HIDE DEF back
  <2>4. cmds # << >> =>
          Append(<< >>, Head(cmds)) \o (Tail(cmds) \o back) = << >> \o (cmds \o back)
    BY <2>3, Slide, Zenon
  <2> QED BY <2>1, <2>2, <2>4 DEF Commands, back
<1>7. CASE EngProcess
  <2>1. /\ UNCHANGED <<sent, wire, inbox, cmds>>
        /\ \/ UNCHANGED <<batch, processed>>
           \/ /\ batch # << >> /\ processed' = Append(processed, Head(batch))
              /\ batch' = Tail(batch)
    BY <1>7 DEF EngProcess, envVars, gwVars, cmdVars
  <2>2. processed \in Seq(Item) /\ batch \in Seq(Item) /\ rest \in Seq(Item)
    BY <1>1 DEF Typed
  <2> HIDE DEF rest
  <2>3. batch # << >> =>
          Append(processed, Head(batch)) \o (Tail(batch) \o rest) = processed \o (batch \o rest)
    BY <2>2, Slide, Zenon
  <2> QED BY <2>1, <2>3 DEF Commands, rest
<1>8. CASE UNCHANGED <<sent, wire, inbox, cmds, batch, processed>>
  BY <1>8 DEF Commands
<1>9. \/ ClientSends \/ GwRead \/ GwPush \/ EngDrain \/ EngPop \/ EngProcess
      \/ UNCHANGED <<sent, wire, inbox, cmds, batch, processed>>
  BY DEF Next, Gateway, GwTop, GwPoll, GwDispatch, GwReadWake, GwPump, Engine,
       EngCheckStop, EngRespond, EngNotify, EngEmit, EngNextCommand, Publisher, PubDrain,
       PubCheckStop, PubFinal, MainStopGateway, MainStops, MainWakeGateway, MainStopEngine,
       MainStopFeed, MainReturn, Exited, vars, envVars, gwVars, cmdVars, engVars
<1> QED BY <1>2, <1>3, <1>4, <1>5, <1>6, <1>7, <1>8, <1>9

(* Responses move from the engine to the client and keep their order. *)
LEMMA StepResponses == Typed /\ Places /\ ResponsesInOrder /\ [Next]_vars => ResponsesInOrder'
<1> SUFFICES ASSUME Typed, Places, ResponsesInOrder, [Next]_vars PROVE ResponsesInOrder'
  OBVIOUS
<1>1. CASE GwPump
  <2>1. delivered' = delivered \o resps /\ resps' = << >> /\ responded' = responded
    BY <1>1 DEF GwPump
  <2>2. (delivered \o resps) \o << >> = delivered \o resps
    BY ConcatProperties, ConcatEmptySeq DEF Typed
  <2> QED BY <2>1, <2>2 DEF ResponsesInOrder
<1>2. CASE EngRespond
  <2> DEFINE e == Last(processed)
  <2>1. /\ resps' = Append(resps, e) /\ responded' = Append(responded, e)
        /\ delivered' = delivered
    BY <1>2 DEF EngRespond
  <2>2. e \in Item
    BY <1>2, LastTyped DEF EngRespond
  <2> HIDE DEF e
  <2>3. delivered \o Append(resps, e) = Append(delivered \o resps, e)
    BY <2>2, AppendBehind, Zenon DEF Typed
  <2> QED BY <2>1, <2>3 DEF ResponsesInOrder
<1>3. CASE UNCHANGED <<delivered, resps, responded>>
  BY <1>3 DEF ResponsesInOrder
<1>4. GwPump \/ EngRespond \/ UNCHANGED <<delivered, resps, responded>>
  BY DEF Next, ClientSends, Gateway, GwTop, GwPoll, GwDispatch, GwReadWake, GwRead, GwPush,
       Engine, EngDrain, EngPop, EngCheckStop, EngProcess, EngNotify, EngEmit,
       EngNextCommand, Publisher, PubDrain, PubCheckStop, PubFinal, MainStopGateway,
       MainStops, MainWakeGateway, MainStopEngine, MainStopFeed, MainReturn, Exited, vars,
       respVars
<1> QED BY <1>1, <1>2, <1>3, <1>4

(* Events move from the engine to the feed, and its end comes after them. *)
LEMMA StepFeed == Typed /\ Places /\ Feed /\ [Next]_vars => Feed'
<1> SUFFICES ASSUME Typed, Places, Feed, [Next]_vars PROVE Feed'
  OBVIOUS
<1>1. published \o events \in Seq(Item) /\ (published \o events) \o << >> = published \o events
  BY ConcatProperties, ConcatEmptySeq DEF Typed
<1>2. CASE EngEmit
  <2> DEFINE e == Last(processed)
  <2>1. /\ events' = Append(events, e) /\ emitted' = Append(emitted, e)
        /\ published' = published /\ pub' = pub /\ pub # "done"
    BY <1>2 DEF EngEmit, Places
  <2>2. e \in Item
    BY <1>2, LastTyped DEF EngEmit
  <2> HIDE DEF e
  <2>3. published \o Append(events, e) = Append(published \o events, e)
    BY <2>2, AppendBehind, Zenon DEF Typed
  <2> QED BY <2>1, <2>3 DEF Feed
<1>3. CASE PubDrain
  BY <1>1, <1>3 DEF PubDrain, Feed
<1>4. CASE PubCheckStop
  BY <1>4 DEF PubCheckStop, Feed
<1>5. CASE PubFinal
  BY <1>5 DEF PubFinal, Feed
<1>6. CASE UNCHANGED <<pub, published, events, emitted>>
  BY <1>6 DEF Feed
<1>7. \/ EngEmit \/ PubDrain \/ PubCheckStop \/ PubFinal
      \/ UNCHANGED <<pub, published, events, emitted>>
  BY DEF Next, ClientSends, Gateway, GwTop, GwPoll, GwDispatch, GwReadWake, GwPump, GwRead,
       GwPush, Engine, EngDrain, EngPop, EngCheckStop, EngProcess, EngRespond, EngNotify,
       EngNextCommand, Publisher, MainStopGateway, MainStops, MainWakeGateway,
       MainStopEngine, MainStopFeed, MainReturn, Exited, vars, feedVars
<1> QED BY <1>2, <1>3, <1>4, <1>5, <1>6, <1>7

(***************************************************************************)
(* The invariant holds in every state of every instance of the pipeline.   *)
(***************************************************************************)
THEOREM Invariance == Spec => []IInv
<1>1. IInv /\ [Next]_vars => IInv'
  BY StepTyped, StepPlaces, StepCommands, StepResponses, StepFeed DEF IInv
<1> QED BY <1>1, InitIInv, PTL DEF Spec

----------------------------------------------------------------------------

(***************************************************************************)
(* Whatever the interleaving of gateway, engine and main, and in both      *)
(* modes of CommandChannel, the engine handles the commands in the order   *)
(* they were sent, each once, and its run_loop ends only with nothing in   *)
(* hand and, with the mutex queue, with nothing queued.                    *)
(***************************************************************************)
THEOREM CommandsConservedThm == Spec => []CommandsConserved
<1>1. IInv => CommandsConserved
  <2> SUFFICES ASSUME IInv PROVE CommandsConserved
    OBVIOUS
  <2> DEFINE front == processed \o batch
             back == inbox \o wire
  <2>1. processed \in Seq(Item) /\ batch \in Seq(Item) /\ cmds \o back \in Seq(Item)
    BY ConcatProperties DEF IInv, Typed
  <2>2. front \in Seq(Item) /\ cmds \in Seq(Item) /\ back \in Seq(Item)
    BY ConcatProperties DEF IInv, Typed
  <2>3. front \o cmds \in Seq(Item) /\ inbox \in Seq(Item) /\ wire \in Seq(Item)
    BY <2>2, ConcatProperties DEF IInv, Typed
  <2>4. Commands = processed \o batch \o cmds \o inbox \o wire
    <3>1. (processed \o batch) \o (cmds \o back) = processed \o (batch \o (cmds \o back))
      BY <2>1, Associative, Zenon
    <3>2. (front \o cmds) \o back = front \o (cmds \o back)
      BY <2>2, Associative, Zenon
    <3>3. ((front \o cmds) \o inbox) \o wire = (front \o cmds) \o (inbox \o wire)
      BY <2>3, Associative, Zenon
    <3> QED BY <3>1, <3>2, <3>3, Zenon DEF Commands
  <2>5. eng = "done" => inbox = << >> /\ batch = << >> /\ (~lockFree => cmds = << >>)
    BY DEF IInv, Places
  <2>6. << >> \o << >> = << >>
    BY EmptySeq, ConcatEmptySeq
  <2> QED BY <2>4, <2>5, <2>6 DEF CommandsConserved, IInv
<1> QED BY <1>1, Invariance, PTL

(***************************************************************************)
(* pump_responses delivers the engine's responses in order and none twice. *)
(***************************************************************************)
THEOREM ResponsesInOrderThm == Spec => []ResponsesInOrder
<1>1. IInv => ResponsesInOrder
  BY DEF IInv
<1> QED BY <1>1, Invariance, PTL

(***************************************************************************)
(* When FeedPublisher::run returns, every event of the engine has been     *)
(* published, once and in order, and one end-of-session packet after them. *)
(***************************************************************************)
THEOREM FeedCompleteThm == Spec => []FeedComplete
<1>1. IInv => FeedComplete
  BY DEF IInv, Feed, FeedComplete
<1> QED BY <1>1, Invariance, PTL

============================================================================
