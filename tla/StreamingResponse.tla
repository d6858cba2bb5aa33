-------------------------- MODULE StreamingResponse --------------------------
(***************************************************************************)
(* One streaming chat response after its request was admitted               *)
(* (StreamingChatHandler.post and run_heartbeat): the handler writes result   *)
(* lines, a heartbeat task fills the quiet, a timeout or a client that leaves *)
(* interrupts them.  ServerAdmission has the admission and what follows it.   *)
(* One unit of time is half a second, the slack of run_heartbeat().          *)
(***************************************************************************)
EXTENDS Integers, Sequences

CONSTANTS
  KeepAlive,   \* keep_alive_interval_seconds, in units; 0 means no heartbeat
  MaxResults,  \* bound on the results of the service
  MaxTime      \* bound on the clock

StreamAssumption == KeepAlive \in Nat /\ MaxResults \in Nat /\ MaxTime \in Nat

VARIABLES
  handler,   \* [pc, event, first, left, why]: the handler of the request
  beat,      \* [pc, wake]: the heartbeat task
  lock,      \* who holds the asyncio lock
  client,    \* "open" or "closed"
  frames,    \* what was written
  lastSend,  \* last_send_ts
  streamTime,\* the clock
  streamDone \* the response is finished

streamVars == <<handler, beat, lock, client, frames, lastSend, streamTime, streamDone>>

Long == -1000 \* last_send_ts = 0.0 on a monotonic clock: long ago

Init ==
  /\ \E e \in BOOLEAN, n \in 0..MaxResults :
       handler = [pc |-> "headers", event |-> e, first |-> FALSE, left |-> n, why |-> "ok"]
  /\ beat = [pc |-> "none", wake |-> 0]
  /\ lock = "free" /\ client = "open" /\ frames = <<>>
  /\ lastSend = Long /\ streamTime = 0 /\ streamDone = FALSE

Leave ==
  /\ client = "open" /\ ~streamDone
  /\ client' = "closed"
  /\ UNCHANGED <<handler, beat, lock, frames, lastSend, streamTime, streamDone>>

\* Time passes while the handler waits for a result and the heartbeat sleeps.
Tick ==
  /\ streamTime < MaxTime /\ handler.pc = "result"
  /\ beat.pc = "sleep" => streamTime < beat.wake
  /\ beat.pc \notin {"lock", "flush"}
  /\ streamTime' = streamTime + 1
  /\ UNCHANGED <<handler, beat, lock, client, frames, lastSend, streamDone>>
-----------------------------------------------------------------------------
(* The handler *)

HandlerOnly == UNCHANGED <<client, streamTime, streamDone>>

\* The first flush sends the headers; then the heartbeat is started.
FlushHeaders ==
  /\ handler.pc = "headers"
  /\ IF client = "open"
     THEN /\ handler' = [handler EXCEPT !.pc = "result"]
          /\ beat' = IF KeepAlive > 0 THEN [pc |-> "sleep", wake |-> streamTime + KeepAlive] ELSE beat
     ELSE /\ handler' = [handler EXCEPT !.pc = "cleanup", !.why = "closed"]
          /\ UNCHANGED beat
  /\ HandlerOnly /\ UNCHANGED <<lock, frames, lastSend>>

\* The service yields a result, ends, or raises.
NextResult ==
  /\ handler.pc = "result"
  /\ \/ handler.left > 0 /\ handler' = [handler EXCEPT !.pc = "lock", !.left = @ - 1]
     \/ handler.left = 0 /\ handler' = [handler EXCEPT !.pc = "cleanup"]
     \/ handler' = [handler EXCEPT !.pc = "error", !.why = "raised"]
  /\ HandlerOnly /\ UNCHANGED <<beat, lock, frames, lastSend>>

\* async with self.lock: write(), and the flush is awaited.
WriteResult ==
  /\ handler.pc = "lock" /\ lock = "free"
  /\ lock' = "handler"
  /\ frames' = Append(frames, "result")
  /\ handler' = [handler EXCEPT !.pc = "flush"]
  /\ HandlerOnly /\ UNCHANGED <<beat, lastSend>>

\* Mutant: an event ends with its client, like a chat.
AlwaysAProblem(event, first) == TRUE

\* Mutant: nobody minds a client that left.
NeverAProblem(event, first) == FALSE

\* _is_client_close_a_problem()
IsClientCloseAProblem(event, first) == ~event \/ ~first

\* do_flush() returns; last_send_ts is set under the lock, whatever it returned.
FlushResult ==
  /\ handler.pc = "flush"
  /\ lock' = "free" /\ lastSend' = streamTime
  /\ handler' =
       IF client = "open" THEN [handler EXCEPT !.pc = "result", !.first = TRUE]
       ELSE IF IsClientCloseAProblem(handler.event, handler.first)
            THEN [handler EXCEPT !.pc = "cleanup", !.why = "closed"]
            ELSE [handler EXCEPT !.pc = "result"]
  /\ HandlerOnly /\ UNCHANGED <<beat, frames>>

\* asyncio.timeout() cancels the handler where it waits; a lock it holds is freed.
TimeOut ==
  /\ handler.pc \in {"result", "lock", "flush"}
  /\ handler' = [handler EXCEPT !.pc = "error", !.why = "timeout"]
  /\ lock' = IF lock = "handler" THEN "free" ELSE lock
  /\ HandlerOnly /\ UNCHANGED <<beat, frames, lastSend>>

\* The exception handlers write an error, without the lock.
WriteError ==
  /\ handler.pc = "error"
  /\ frames' = Append(frames, "error")
  /\ handler' = [handler EXCEPT !.pc = "cleanup"]
  /\ HandlerOnly /\ UNCHANGED <<beat, lock, lastSend>>

\* Mutant: the heartbeat task is cancelled only if no client is there any more.
LeaveHeartbeat ==
  /\ handler.pc = "cleanup"
  /\ handler' = [handler EXCEPT !.pc = "finish"]
  /\ beat' = IF client = "closed" THEN [beat EXCEPT !.pc = "done"] ELSE beat
  /\ lock' = IF lock = "beat" /\ client = "closed" THEN "free" ELSE lock
  /\ HandlerOnly /\ UNCHANGED <<frames, lastSend>>

\* finally: the heartbeat task is cancelled where it waits, and awaited.
CancelHeartbeat ==
  /\ handler.pc = "cleanup"
  /\ handler' = [handler EXCEPT !.pc = "finish"]
  /\ beat' = IF beat.pc = "none" THEN beat ELSE [beat EXCEPT !.pc = "done"]
  /\ lock' = IF lock = "beat" THEN "free" ELSE lock
  /\ HandlerOnly /\ UNCHANGED <<frames, lastSend>>

\* _finish_request(): the generator is closed and the response finished.
FinishRequest ==
  /\ handler.pc = "finish"
  /\ handler' = [handler EXCEPT !.pc = "done"]
  /\ streamDone' = TRUE
  /\ UNCHANGED <<beat, lock, client, frames, lastSend, streamTime>>
-----------------------------------------------------------------------------
(* The heartbeat *)

BeatOnly == UNCHANGED <<handler, client, streamTime, streamDone>>

\* Mutant: after recent traffic the heartbeat sleeps for a whole interval.
SleepAll(remaining) == KeepAlive

\* How long it goes on sleeping when there was traffic recently.
SleepFor(remaining) == remaining

\* The sleep is over: there was traffic lately, or a frame is due.
WakeBeat ==
  /\ beat.pc = "sleep" /\ streamTime = beat.wake
  /\ LET remaining == KeepAlive - (streamTime - lastSend)
     IN beat' = IF remaining > 1 THEN [beat EXCEPT !.wake = streamTime + SleepFor(remaining)]
                ELSE [beat EXCEPT !.pc = "lock"]
  /\ BeatOnly /\ UNCHANGED <<lock, frames, lastSend>>

\* Mutant: the heartbeat writes without the lock.
WriteBeatUnlocked ==
  /\ beat.pc = "lock"
  /\ beat' = [beat EXCEPT !.pc = "flush"]
  /\ frames' = Append(frames, "beat")
  /\ BeatOnly /\ UNCHANGED <<lock, lastSend>>

WriteBeat ==
  /\ beat.pc = "lock" /\ lock = "free"
  /\ lock' = "beat"
  /\ beat' = [beat EXCEPT !.pc = "flush"]
  /\ frames' = Append(frames, "beat")
  /\ BeatOnly /\ UNCHANGED lastSend

\* Mutant: a heartbeat whose flush fails returns with the lock.
KeepLockOnFailure ==
  /\ beat.pc = "flush"
  /\ lock' = IF client = "open" THEN "free" ELSE lock
  /\ lastSend' = streamTime
  /\ beat' = IF client = "open" THEN [pc |-> "sleep", wake |-> streamTime + KeepAlive]
             ELSE [beat EXCEPT !.pc = "done"]
  /\ BeatOnly /\ UNCHANGED frames

\* The flush of a heartbeat; it is the last one when the client is gone.
FlushBeat ==
  /\ beat.pc = "flush"
  /\ lock' = "free" /\ lastSend' = streamTime
  /\ beat' = IF client = "open" THEN [pc |-> "sleep", wake |-> streamTime + KeepAlive]
             ELSE [beat EXCEPT !.pc = "done"]
  /\ BeatOnly /\ UNCHANGED frames

Handle ==
  FlushHeaders \/ NextResult \/ WriteResult \/ FlushResult \/ WriteError \/ CancelHeartbeat \/ FinishRequest
Beat == WakeBeat \/ WriteBeat \/ FlushBeat

Next == Leave \/ Tick \/ TimeOut \/ Handle \/ Beat
-----------------------------------------------------------------------------
(* Properties *)

TypeOK ==
  /\ handler.pc \in {"headers", "result", "lock", "flush", "error", "cleanup", "finish", "done"}
  /\ handler.left \in 0..MaxResults
  /\ beat.pc \in {"none", "sleep", "lock", "flush", "done"}
  /\ lock \in {"free", "handler", "beat"} /\ client \in {"open", "closed"}

\* Whoever is between a write and its flush holds the lock, so no line is torn.
WritersHoldTheLock ==
  /\ handler.pc = "flush" => lock = "handler"
  /\ beat.pc = "flush" => lock = "beat"

\* A finished response has no task left that could write to it, and no lock held.
NothingWritesLater ==
  streamDone => beat.pc \in {"none", "done"} /\ lock = "free"

\* While the handler waits for a result, its client never hears nothing for
\* longer than the interval, from the last line or the start of the heartbeat.
NeverQuietTooLong ==
  handler.pc = "result" /\ beat.pc = "sleep" =>
    streamTime - (IF lastSend = Long THEN 0 ELSE lastSend) <= KeepAlive

\* An event of which a result has reached the client is never given up because
\* the client left, and a chat is given up at the next result.
EventsOutliveClients ==
  handler.why = "closed" => ~(handler.event /\ handler.first)
ChatsEndWithClients ==
  handler.pc = "flush" /\ client = "closed" /\ ~handler.event => handler'.pc # "result"
=============================================================================
