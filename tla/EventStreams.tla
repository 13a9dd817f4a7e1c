---------------------------- MODULE EventStreams ----------------------------
(***************************************************************************)
(* The event stream and its readers: vzctl events subscribe, vzctl stack    *)
(* watch, and the desktop application's subscriptions. The control plane    *)
(* writes one frame per event, to the RPC subscribers under its state lock  *)
(* and to the application from the emitting thread after the lock; the      *)
(* transport delivers a frame in pieces, and the two command line readers   *)
(* give up every quarter of a second to look at a signal. A slow reader is  *)
(* dropped in the middle of a frame, and the control plane may stop.        *)
(***************************************************************************)
EXTENDS Naturals, Sequences, SequencesExt

CONSTANTS EsTypes,   \* event types
          EsVms,     \* VMs that stack watch can warn about
          MaxEvents, \* bound: events
          MaxTicks,  \* bound: status rounds of stack watch
          NoEs       \* no exit code

ASSUME EventStreamsAssumption == NoEs # "invalid" /\ MaxEvents \in Nat

\* [kind, filter, log, from: events before the subscription,
\*  pc, sub: "none", "on", "dropped" after a failed write, "closed",
\*  calls: events whose emitter has yet to call the application's handler,
\*  over: history, pairs of such an event and one emitted meanwhile,
\*  queue: frames sent and not read out, cut: pieces the last one will have,
\*  got, call, kept: pieces of the first one that have arrived, that the read
\*  under way has appended, and that earlier reads left in the line,
\*  out, maimed: events written out, those with a character missing,
\*  split: history, a timeout fell into a character,
\*  code, stop, ticks, last_codes, said]
VARIABLE es

\* One reader of each kind; ui and guest are the application's.
EsKinds == {"subscribe", "watch", "ui", "guest"}

\* A frame up to a character of two bytes, those bytes, and the rest with its newline.
EsPieces == 4
EsWhole == 1 .. EsPieces

EsInit ==
  \E kind \in EsKinds, filter \in SUBSET EsTypes :
    es = [kind |-> kind, filter |-> filter, log |-> << >>, from |-> 0, pc |-> "off", sub |-> "none", calls |-> {}, over |-> {},
          queue |-> << >>, cut |-> EsPieces, got |-> 0, call |-> {}, kept |-> {}, out |-> << >>, maimed |-> {}, split |-> FALSE,
          code |-> NoEs, stop |-> FALSE, ticks |-> 0, last_codes |-> {}, said |-> {}]

-----------------------------------------------------------------------------
(* The control plane.                                                      *)

\* stack watch subscribes to everything and filters itself.
EsServed(type) == es.sub = "on" /\ (es.kind = "watch" \/ type \in es.filter)

\* The answer is written and the subscriber registered under one lock. The
\* guest's log stream, which the control plane passes on, has one writer too.
subscribe ==
  /\ es.kind # "ui" /\ es.pc = "handshake"
  /\ es' = [es EXCEPT !.pc = "live", !.sub = "on", !.from = Len(es.log)]

\* The application is answered first and its listener added afterwards.
streamEvents ==
  /\ es.kind = "ui"
  /\ \/ es.pc = "handshake" /\ es' = [es EXCEPT !.pc = "live"]
     \/ es.pc = "live" /\ es.sub = "none" /\ es' = [es EXCEPT !.sub = "on", !.from = Len(es.log)]

EsNewest == Len(es.log) + 1

\* Under the state lock the frame is written to the subscribers and the
\* listeners are copied. A write that fails, after 2 s on a full socket,
\* leaves what was written of the frame and removes the subscriber, whose
\* connection stays open.
emit ==
  /\ Len(es.log) < MaxEvents
  /\ \E type \in EsTypes :
       \/ ~EsServed(type) /\ es' = [es EXCEPT !.log = Append(@, type)]
       \/ /\ EsServed(type) /\ es.kind = "ui"
          /\ es' = [es EXCEPT !.log = Append(@, type), !.calls = @ \cup {EsNewest},
                              !.over = @ \cup {<<x, EsNewest>> : x \in es.calls}]
       \/ EsServed(type) /\ es.kind # "ui" /\ es' = [es EXCEPT !.log = Append(@, type), !.queue = Append(@, EsNewest)]
       \/ /\ EsServed(type) /\ es.kind \in {"subscribe", "watch"}
          /\ \/ es' = [es EXCEPT !.log = Append(@, type), !.sub = "dropped"]
             \/ \E n \in 1 .. EsPieces - 1 :
                  es' = [es EXCEPT !.log = Append(@, type), !.sub = "dropped", !.queue = Append(@, EsNewest), !.cut = n]

\* The emitting threads call the application's handler when they come to it.
call_listener(x) ==
  /\ x \in es.calls /\ es.sub = "on"
  /\ es' = [es EXCEPT !.calls = @ \ {x}, !.queue = Append(@, x)]

supervisor_stops ==
  /\ es.pc = "live" /\ es.sub # "closed"
  /\ es' = [es EXCEPT !.sub = "closed", !.calls = {}]

-----------------------------------------------------------------------------
(* Reading a line. Only the first frame on its way matters to a reader: it  *)
(* takes a line as soon as its newline is there.                            *)

EsSent == IF Len(es.queue) = 1 THEN es.cut ELSE EsPieces

\* The transport: one piece at a time, which the read under way appends.
EsArrives ==
  /\ es.pc = "live" /\ es.queue # << >> /\ es.got < EsSent
  /\ es' = [es EXCEPT !.got = @ + 1, !.call = @ \cup {es.got + 1}]

EsNewline == es.queue # << >> /\ es.got = EsPieces
EsEof == es.sub = "closed" /\ (es.queue # << >> => es.got = EsSent /\ es.got < EsPieces)

\* One byte of the character without the other.
EsSplit(pieces) == (2 \in pieces) # (3 \in pieces)
\* What the JSON parser takes for an event.
EsEvent(line) == {1, EsPieces} \subseteq line /\ ~EsSplit(line)

\* The frame is done with, and written out or not.
EsPassed == [es EXCEPT !.queue = Tail(@), !.got = 0, !.call = {}, !.kept = {}]
EsWritten == [es EXCEPT !.queue = Tail(@), !.got = 0, !.call = {}, !.kept = {}, !.out = Append(@, Head(es.queue))]

-----------------------------------------------------------------------------
(* events subscribe.                                                       *)

EsConnect(kind) == es.kind = kind /\ es.pc = "off" /\ es' = [es EXCEPT !.pc = "handshake"]

EsExit(code) == [es EXCEPT !.pc = "exit", !.code = code]

\* The handshake fails or is refused.
subscribe_fails == es.kind = "subscribe" /\ es.pc = "handshake" /\ es' = EsExit("unhealthy")

\* Ctrl-C is a flag the loop looks at.
EsInterrupt == es.kind \in {"subscribe", "watch"} /\ es.pc = "live" /\ ~es.stop /\ es' = [es EXCEPT !.stop = TRUE]

\* A line that is no text or no event ends the command.
EsReadsLine ==
  LET line == es.kept \cup es.call
  IN  es' = IF EsSplit(es.call) \/ ~EsEvent(line) THEN EsExit("invalid")
            ELSE [EsWritten EXCEPT !.maimed = @ \cup {x \in {Head(es.queue)} : line # EsWhole}]

\* Mutant: the line starts empty with every read.
events_subscribeFresh ==
  /\ es.kind = "subscribe" /\ es.pc = "live"
  /\ \/ es.stop /\ es' = EsExit("ok")
     \/ ~es.stop /\ EsNewline /\ EsReadsLine
     \/ ~es.stop /\ ~EsNewline /\ es.call # {} /\ es' = [es EXCEPT !.call = {}, !.split = IF EsSplit(es.call) THEN TRUE ELSE @]
     \/ ~es.stop /\ EsEof /\ es' = EsExit("unhealthy")

\* The line keeps what came before a timeout, unless that ends in the middle
\* of a character: then read_line takes back what it has appended. So does
\* the end of the stream end the command.
events_subscribe ==
  /\ es.kind = "subscribe" /\ es.pc = "live"
  /\ \/ es.stop /\ es' = EsExit("ok")
     \/ ~es.stop /\ EsNewline /\ EsReadsLine
     \/ /\ ~es.stop /\ ~EsNewline /\ es.call # {}
        /\ es' = [es EXCEPT !.call = {}, !.kept = IF EsSplit(es.call) THEN @ ELSE @ \cup es.call,
                            !.split = IF EsSplit(es.call) THEN TRUE ELSE @]
     \/ ~es.stop /\ EsEof /\ es' = EsExit("unhealthy")

-----------------------------------------------------------------------------
(* stack watch.                                                            *)

watch_match(type) == type \in es.filter

\* A status round: warnings whose code the last round did not have are
\* written; the code is the same for every VM.
watch_tick ==
  /\ es.kind = "watch" /\ es.pc \in {"live", "none"} /\ ~es.stop /\ es.ticks < MaxTicks
  /\ \E warned \in SUBSET EsVms :
       es' = [es EXCEPT !.ticks = @ + 1, !.said = @ \cup (IF es.last_codes = {} THEN warned ELSE {}),
                        !.last_codes = IF warned = {} THEN {} ELSE {"VM_NOT_RUNNING"}]

\* Each read begins with an empty line: pieces before a timeout are lost. A
\* line that is no event is passed over, one that is no text ends the
\* subscription, and there is no second one.
run_watch ==
  /\ es.kind = "watch" /\ es.pc \in {"live", "none"}
  /\ \/ es.stop /\ es' = EsExit("ok")
     \/ /\ ~es.stop /\ es.pc = "live" /\ EsNewline
        /\ es' = IF EsSplit(es.call) THEN [es EXCEPT !.pc = "none"]
                 ELSE IF EsEvent(es.call) /\ watch_match(es.log[Head(es.queue)]) THEN EsWritten ELSE EsPassed
     \/ ~es.stop /\ es.pc = "live" /\ ~EsNewline /\ es.call # {} /\ es' = [es EXCEPT !.call = {}]
     \/ ~es.stop /\ es.pc = "live" /\ EsEof /\ es' = [es EXCEPT !.pc = "none"]

\* One try; without the control plane the watch goes on with status rounds only.
watch_subscribe_fails == es.kind = "watch" /\ es.pc = "handshake" /\ es' = [es EXCEPT !.pc = "none"]

-----------------------------------------------------------------------------
(* The application: one thread per stream, which blocks in its read.       *)

\* A data line is kept until the blank line that ends the event. The stream
\* ends with its connection, or after 300 s of silence, and may be opened again.
subscribe_events ==
  /\ es.kind = "ui" /\ es.pc = "live"
  /\ \/ EsNewline /\ es' = EsWritten
     \/ es' = [es EXCEPT !.pc = "off", !.sub = "none", !.calls = {}, !.queue = << >>, !.got = 0, !.call = {}, !.out = << >>]

\* The same, with a flag that is looked at before and after each read.
subscribe_guest_logs ==
  /\ es.kind = "guest" /\ es.pc = "live"
  /\ \/ ~es.stop /\ EsNewline /\ es' = EsWritten
     \/ (es.stop \/ EsEof) /\ es' = [es EXCEPT !.pc = "exit"]

unsubscribe_guest_logs == es.kind = "guest" /\ es.pc = "live" /\ ~es.stop /\ es' = [es EXCEPT !.stop = TRUE]

-----------------------------------------------------------------------------

EsNext ==
  \/ subscribe \/ streamEvents \/ emit \/ supervisor_stops \/ EsArrives \/ EsInterrupt
  \/ \E x \in es.calls : call_listener(x)
  \/ \E kind \in EsKinds : EsConnect(kind)
  \/ subscribe_fails \/ events_subscribe \/ watch_tick \/ run_watch \/ watch_subscribe_fails
  \/ subscribe_events \/ subscribe_guest_logs \/ unsubscribe_guest_logs

EsSpec == EsInit /\ [][EsNext]_es

-----------------------------------------------------------------------------
(* Correctness.                                                            *)

\* The events since the subscription that pass the filter, by their number.
EsExpected == {i \in 1..Len(es.log) : i > es.from /\ es.log[i] \in es.filter}

\* Of the application, x may come after y although it was emitted before:
\* when y was emitted, the handler had still to be called for x.
EsSwapped(x, y) == es.kind = "ui" /\ <<x, y>> \in es.over

\* events subscribe and the application repeat no event and skip none,
\* however the transport cuts the frames, wherever timeouts fall, whenever
\* writes fail and whatever is sent meanwhile: what is out is in the order
\* of emission and misses nothing between, except that for the application
\* two events whose emissions overlap may swap. While the subscription
\* stands the rest is on its way. No timeout ends the command or changes an
\* event unless it falls into the middle of a character.
NoEventLost ==
  es.kind # "watch" =>
    /\ \A i, j \in DOMAIN es.out : i < j => es.out[i] < es.out[j] \/ EsSwapped(es.out[j], es.out[i])
    /\ Range(es.out) \subseteq EsExpected
    /\ \A x \in EsExpected, y \in Range(es.out) : x < y => x \in Range(es.out) \/ EsSwapped(x, y)
    /\ es.sub = "on" /\ es.pc = "live" => EsExpected \subseteq Range(es.out) \cup Range(es.queue) \cup es.calls
    /\ ~es.split => es.code # "invalid" /\ es.maimed = {}
=============================================================================
