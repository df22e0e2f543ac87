------------------------------ MODULE Pipeline ------------------------------
(***************************************************************************)
(* The threads of exchanged and the queues between them: the gateway loop, *)
(* the engine in its blocking and its busy-polling mode, the feed          *)
(* publisher, and main, which stops them one after the other.  A command   *)
(* is the number of its arrival on the wire; what the engine answers to it *)
(* is a choice of responses and market events that carry that number.      *)
(* A queue operation under the mutex of MpscQueue is one step, and so is a *)
(* try_push or try_pop of the ring, which SpscRing shows to be atomic.     *)
(***************************************************************************)
EXTENDS Naturals, Sequences, SequencesExt

CONSTANTS RingCapacity,  \* entries the ring holds
          Outputs,       \* what process() may push, in order
          MaxCommands    \* bound on what the client sends

ASSUME PipelineAssumption ==
  /\ RingCapacity \in Nat \ {0}
  /\ Outputs \subseteq Seq({"resp", "event"})
  /\ MaxCommands \in Nat

VARIABLES
  lockFree,             \* CommandChannel::lock_free_, --ll-mode as main read it
  wire, sent,           \* bytes of commands in the socket; how many were sent
  gw, ready, inbox,     \* gateway: pc, the events of this round, decoded input
  cmds, cmdStopped,     \* CommandChannel
  eng, batch, todo,     \* engine: pc, the drained commands, outputs to push
  resps, wake,          \* to_gateway and whether the wake pipe has bytes
  events, feedStopped,  \* to_feed
  pub,                  \* feed publisher: pc
  main, stopping,       \* main's pc, Gateway::stopping_
  processed, responded, emitted, delivered, published  \* histories

vars == <<lockFree, wire, sent, gw, ready, inbox, cmds, cmdStopped, eng, batch, todo,
          resps, wake, events, feedStopped, pub, main, stopping,
          processed, responded, emitted, delivered, published>>

gwVars == <<gw, ready, inbox>>
engVars == <<eng, batch, todo>>
cmdVars == <<cmds, cmdStopped>>
respVars == <<resps, wake>>
feedVars == <<events, feedStopped, pub, published>>
envVars == <<lockFree, wire, sent>>
mainVars == <<main, stopping>>

Init ==
  /\ lockFree \in BOOLEAN
  /\ wire = << >> /\ sent = 0
  /\ gw = "top" /\ ready = {} /\ inbox = << >>
  /\ cmds = << >> /\ cmdStopped = FALSE
  /\ eng = "wait" /\ batch = << >> /\ todo = << >>
  /\ resps = << >> /\ wake = FALSE
  /\ events = << >> /\ feedStopped = FALSE
  /\ pub = "wait"
  /\ main = "run" /\ stopping = FALSE
  /\ processed = << >> /\ responded = << >> /\ emitted = << >>
  /\ delivered = << >> /\ published = << >>

(* A client writes its next command while its connection is open. *)
ClientSends ==
  /\ gw # "done"
  /\ sent < MaxCommands
  /\ sent' = sent + 1
  /\ wire' = Append(wire, sent + 1)
  /\ UNCHANGED <<lockFree, gwVars, cmdVars, engVars, respVars, feedVars, mainVars,
                 processed, responded, emitted, delivered>>

----------------------------------------------------------------------------
(* Gateway::run *)

(* while (!stopping_): otherwise every connection is closed. *)
GwTop ==
  /\ gw = "top"
  /\ gw' = IF stopping THEN "done" ELSE "poll"
  /\ UNCHANGED <<ready, inbox, envVars, cmdVars, engVars, respVars, feedVars,
                 mainVars, processed, responded, emitted, delivered>>

(* Poller::wait: level-triggered, or nothing when its timeout elapses. *)
Readable == {fd \in {"wake", "conn"} : IF fd = "wake" THEN wake ELSE wire # << >>}

GwPoll ==
  /\ gw = "poll"
  /\ ready' = Readable
  /\ gw' = "dispatch"
  /\ UNCHANGED <<inbox, envVars, cmdVars, engVars, respVars, feedVars,
                 mainVars, processed, responded, emitted, delivered>>

(* One event of the round, unless stopping_ ends the round first. *)
GwDispatch ==
  /\ gw = "dispatch"
  /\ \/ /\ stopping \/ ready = {}
        /\ gw' = "top"
        /\ ready' = {}
     \/ /\ ~stopping
        /\ \E fd \in ready :
             /\ ready' = ready \ {fd}
             /\ gw' = IF fd = "wake" THEN "wake" ELSE "read"
  /\ UNCHANGED <<inbox, envVars, cmdVars, engVars, respVars, feedVars,
                 mainVars, processed, responded, emitted, delivered>>

GwReadWake ==
  /\ gw = "wake"
  /\ wake' = FALSE
  /\ gw' = "pump"
  /\ UNCHANGED <<ready, inbox, envVars, cmdVars, engVars, resps, feedVars,
                 mainVars, processed, responded, emitted, delivered>>

(* Mutant: one response per wake-up. *)
GwPumpOne ==
  /\ gw = "pump"
  /\ delivered' = delivered \o SubSeq(resps, 1, 1)
  /\ resps' = IF resps = << >> THEN << >> ELSE Tail(resps)
  /\ gw' = "dispatch"
  /\ UNCHANGED <<ready, inbox, wake, envVars, cmdVars, engVars, feedVars,
                 mainVars, processed, responded, emitted>>

(* Mutant: drain() copies the queue and leaves it as it is. *)
GwPumpCopies ==
  /\ gw = "pump"
  /\ delivered' = delivered \o resps
  /\ gw' = "dispatch"
  /\ UNCHANGED <<ready, inbox, respVars, envVars, cmdVars, engVars, feedVars,
                 mainVars, processed, responded, emitted>>

(* pump_responses *)
GwPump ==
  /\ gw = "pump"
  /\ delivered' = delivered \o resps
  /\ resps' = << >>
  /\ gw' = "dispatch"
  /\ UNCHANGED <<ready, inbox, wake, envVars, cmdVars, engVars, feedVars,
                 mainVars, processed, responded, emitted>>

(* handle_readable: read until the socket would block, push what arrived. *)
GwRead ==
  /\ gw = "read"
  /\ inbox = << >>
  /\ inbox' = wire
  /\ wire' = << >>
  /\ gw' = IF wire = << >> THEN "dispatch" ELSE "read"
  /\ UNCHANGED <<lockFree, ready, sent, cmdVars, engVars, respVars, feedVars,
                 mainVars, processed, responded, emitted, delivered>>

(* CommandChannel::push: the lock-free one spins while the ring is full. *)
GwPush ==
  /\ gw = "read"
  /\ inbox # << >>
  /\ lockFree => Len(cmds) < RingCapacity
  /\ cmds' = Append(cmds, Head(inbox))
  /\ inbox' = Tail(inbox)
  /\ UNCHANGED <<gw, ready, envVars, cmdStopped, engVars, respVars, feedVars,
                 mainVars, processed, responded, emitted, delivered>>

Gateway == GwTop \/ GwPoll \/ GwDispatch \/ GwReadWake \/ GwPump \/ GwRead \/ GwPush

----------------------------------------------------------------------------
(* Engine::run_loop *)

(* Mutant: wait_drain looks at the stop flag before the queue. *)
EngDrainStopFirst ==
  /\ ~lockFree
  /\ eng = "wait"
  /\ cmds # << >> \/ cmdStopped
  /\ batch' = IF cmdStopped THEN << >> ELSE cmds
  /\ cmds' = IF cmdStopped THEN cmds ELSE << >>
  /\ eng' = IF cmdStopped THEN "done" ELSE "process"
  /\ UNCHANGED <<todo, cmdStopped, envVars, gwVars, respVars, feedVars,
                 mainVars, processed, responded, emitted, delivered>>

(* wait_drain: everything queued, or nothing once the queue is stopped. *)
EngDrain ==
  /\ ~lockFree
  /\ eng = "wait"
  /\ cmds # << >> \/ cmdStopped
  /\ batch' = cmds
  /\ cmds' = << >>
  /\ eng' = IF cmds = << >> THEN "done" ELSE "process"
  /\ UNCHANGED <<todo, cmdStopped, envVars, gwVars, respVars, feedVars,
                 mainVars, processed, responded, emitted, delivered>>

(* try_pop: the next entry, or the stop flag is looked at. *)
EngPop ==
  /\ lockFree
  /\ eng = "wait"
  /\ IF cmds = << >>
       THEN eng' = "dry" /\ UNCHANGED <<batch, cmds>>
       ELSE /\ eng' = "process"
            /\ batch' = <<Head(cmds)>>
            /\ cmds' = Tail(cmds)
  /\ UNCHANGED <<todo, cmdStopped, envVars, gwVars, respVars, feedVars,
                 mainVars, processed, responded, emitted, delivered>>

EngCheckStop ==
  /\ eng = "dry"
  /\ eng' = IF cmdStopped THEN "done" ELSE "wait"
  /\ UNCHANGED <<batch, todo, envVars, gwVars, cmdVars, respVars, feedVars,
                 mainVars, processed, responded, emitted, delivered>>

(* process(): the handler's outputs are pushed one after the other. *)
EngProcess ==
  /\ eng = "process"
  /\ IF batch = << >>
       THEN eng' = "wait" /\ UNCHANGED <<batch, todo, processed>>
       ELSE /\ todo' \in Outputs
            /\ processed' = Append(processed, Head(batch))
            /\ batch' = Tail(batch)
            /\ eng' = "output"
  /\ UNCHANGED <<envVars, gwVars, cmdVars, respVars, feedVars, mainVars,
                 responded, emitted, delivered>>

(* to_gateway.push: the item first, the wake-up byte after the unlock. *)
EngRespond ==
  /\ eng = "output"
  /\ todo # << >> /\ Head(todo) = "resp"
  /\ resps' = Append(resps, Last(processed))
  /\ responded' = Append(responded, Last(processed))
  /\ todo' = Tail(todo)
  /\ eng' = "notify"
  /\ UNCHANGED <<batch, wake, envVars, gwVars, cmdVars, feedVars, mainVars,
                 processed, emitted, delivered>>

EngNotify ==
  /\ eng = "notify"
  /\ wake' = TRUE
  /\ eng' = "output"
  /\ UNCHANGED <<batch, todo, resps, envVars, gwVars, cmdVars, feedVars,
                 mainVars, processed, responded, emitted, delivered>>

EngEmit ==
  /\ eng = "output"
  /\ todo # << >> /\ Head(todo) = "event"
  /\ events' = Append(events, Last(processed))
  /\ emitted' = Append(emitted, Last(processed))
  /\ todo' = Tail(todo)
  /\ UNCHANGED <<eng, batch, feedStopped, pub, published, envVars, gwVars,
                 cmdVars, respVars, mainVars, processed, responded, delivered>>

EngNextCommand ==
  /\ eng = "output"
  /\ todo = << >>
  /\ eng' = "process"
  /\ UNCHANGED <<batch, todo, envVars, gwVars, cmdVars, respVars, feedVars,
                 mainVars, processed, responded, emitted, delivered>>

Engine == \/ EngDrain \/ EngPop \/ EngCheckStop \/ EngProcess
          \/ EngRespond \/ EngNotify \/ EngEmit \/ EngNextCommand

----------------------------------------------------------------------------
(* FeedPublisher::run *)

(* wait_drain_for comes back with the queue, which is empty when its *)
(* timeout elapsed or the queue was stopped.                          *)
PubDrain ==
  /\ pub = "wait"
  /\ published' = published \o events
  /\ events' = << >>
  /\ pub' = IF events = << >> THEN "idle" ELSE "wait"
  /\ UNCHANGED <<feedStopped, envVars, gwVars, cmdVars, engVars, respVars,
                 mainVars, processed, responded, emitted, delivered>>

(* stopped() is a second visit to the lock; an idle round sends a heartbeat. *)
PubCheckStop ==
  /\ pub = "idle"
  /\ pub' = IF feedStopped THEN "final" ELSE "wait"
  /\ UNCHANGED <<events, feedStopped, published, envVars, gwVars, cmdVars,
                 engVars, respVars, mainVars, processed, responded, emitted,
                 delivered>>

(* Mutant: the loop's last batch is taken to be the last there is. *)
PubFinalNoDrain ==
  /\ pub = "final"
  /\ published' = Append(published, "end_of_session")
  /\ pub' = "done"
  /\ UNCHANGED <<events, feedStopped, envVars, gwVars, cmdVars, engVars,
                 respVars, mainVars, processed, responded, emitted, delivered>>

(* publish(in_.drain()), then the end-of-session packet. *)
PubFinal ==
  /\ pub = "final"
  /\ published' = Append(published \o events, "end_of_session")
  /\ events' = << >>
  /\ pub' = "done"
  /\ UNCHANGED <<feedStopped, envVars, gwVars, cmdVars, engVars, respVars,
                 mainVars, processed, responded, emitted, delivered>>

Publisher == PubDrain \/ PubCheckStop \/ PubFinal

----------------------------------------------------------------------------
(* main of exchanged: gateway.stop(), engine.stop(), feed.stop() *)

(* Gateway::stop sets the flag, then writes to the wake pipe. *)
MainStopGateway ==
  /\ main = "run"
  /\ stopping' = TRUE
  /\ main' = "wake"
  /\ UNCHANGED <<envVars, gwVars, cmdVars, engVars, respVars, feedVars,
                 processed, responded, emitted, delivered>>

MainWakeGateway ==
  /\ main = "wake"
  /\ wake' = TRUE
  /\ main' = "join_gateway"
  /\ UNCHANGED <<stopping, envVars, gwVars, cmdVars, engVars, resps, feedVars,
                 processed, responded, emitted, delivered>>

(* Mutant: stop() stops the mutex queue in both modes. *)
MainStopMutexQueue ==
  /\ main = "join_gateway"
  /\ gw = "done"
  /\ cmdStopped' = ~lockFree
  /\ main' = "join_engine"
  /\ UNCHANGED <<stopping, cmds, envVars, gwVars, engVars, respVars, feedVars,
                 processed, responded, emitted, delivered>>

(* Engine::stop once the gateway thread has been joined. *)
MainStopEngine ==
  /\ main = "join_gateway"
  /\ gw = "done"
  /\ cmdStopped' = TRUE
  /\ main' = "join_engine"
  /\ UNCHANGED <<stopping, cmds, envVars, gwVars, engVars, respVars, feedVars,
                 processed, responded, emitted, delivered>>

(* FeedPublisher::stop once the engine thread has been joined. *)
MainStopFeed ==
  /\ main = "join_engine"
  /\ eng = "done"
  /\ feedStopped' = TRUE
  /\ main' = "join_feed"
  /\ UNCHANGED <<stopping, events, pub, published, envVars, gwVars, cmdVars,
                 engVars, respVars, processed, responded, emitted, delivered>>

MainReturn ==
  /\ main = "join_feed"
  /\ pub = "done"
  /\ main' = "done"
  /\ UNCHANGED <<stopping, envVars, gwVars, cmdVars, engVars, respVars,
                 feedVars, processed, responded, emitted, delivered>>

MainStops == MainWakeGateway \/ MainStopEngine \/ MainStopFeed \/ MainReturn

(* The process has exited. *)
Exited == main = "done" /\ UNCHANGED vars

Next == \/ ClientSends \/ Gateway \/ Engine \/ Publisher
        \/ MainStopGateway \/ MainStops \/ Exited

(* The scheduler runs every thread, poll and wait_drain_for time out; the *)
(* client need not send and the interrupt need not come.                  *)
Spec == /\ Init /\ [][Next]_vars
        /\ WF_vars(Gateway) /\ WF_vars(Engine)
        /\ WF_vars(Publisher) /\ WF_vars(MainStops)

----------------------------------------------------------------------------
(* Properties *)

(***************************************************************************)
(* The engine handles the commands in the order in which they were sent    *)
(* and each of them once: whatever the threads do, what was handled, what  *)
(* is drained, queued and decoded and what is still in the socket make up  *)
(* exactly the commands sent.  The engine thread ends only when the        *)
(* gateway has handed over all it decoded and the drained commands are     *)
(* handled; with the mutex queue it ends only when that has run dry too,   *)
(* so shutting down loses no command that was read from a connection.      *)
(***************************************************************************)
CommandsConserved ==
  /\ processed \o batch \o cmds \o inbox \o wire = [i \in 1 .. sent |-> i]
  /\ eng = "done" => inbox \o batch = << >> /\ (~lockFree => cmds = << >>)

(***************************************************************************)
(* Responses reach the client in the order the engine gave them, none      *)
(* twice, across any number of wake-ups of the gateway.                    *)
(***************************************************************************)
ResponsesInOrder == delivered \o resps = responded

(***************************************************************************)
(* The feed ends with exactly one end-of-session packet, after every event *)
(* the engine emitted, also those emitted while the threads were stopping. *)
(***************************************************************************)
FeedComplete ==
  pub = "done" => published = Append(emitted, "end_of_session")

(***************************************************************************)
(* No wake-up is lost: a response the engine has pushed is taken by the    *)
(* gateway thread, unless that thread is told to stop.                     *)
(***************************************************************************)
ResponsesTaken == resps # << >> ~> (resps = << >> \/ stopping)

(***************************************************************************)
(* Once main starts to stop the threads all of them end and main returns:  *)
(* no join waits for a thread that waits for another.                      *)
(***************************************************************************)
StopTerminates == stopping ~> main = "done"

============================================================================
