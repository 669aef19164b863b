-------------------------------- MODULE Cdp ---------------------------------
(* The browser-level DevTools connection: CdpConnection (collector/cdp.py).  *)
(* One coroutine runs receive_loop; others issue commands, whose answers     *)
(* arrive by id, and take events from a bounded queue.  A step is what a     *)
(* coroutine does between two awaits.                                        *)
EXTENDS Integers, Sequences

CONSTANTS
  Caller,       \* coroutines that issue commands
  Kind,         \* kinds of events
  QueueSize,    \* event_queue_size
  MaxEvents,    \* bound: events the browser sends
  MaxCommands,  \* bound: commands that get an id
  None

Answers == {"result", "error", "closed"}

ASSUME CdpAssumption ==
  /\ QueueSize \in Nat \ {0} /\ MaxEvents \in Nat /\ MaxCommands \in Nat
  /\ None \notin Nat \cup Answers

VARIABLES
  receiver,  \* receive_loop: "running", "ended", "failed" or "cancelled"
  nextId,    \* _next_id
  pending,   \* _pending: the caller whose future waits, by command id
  asked,     \* ids the browser has not answered
  call,      \* what each caller is doing in command()
  offered,   \* how many events the loop was given
  arrived,   \* every event ever queued, in order
  taken      \* how many of them were taken from the queue

cdpVars == <<receiver, nextId, pending, asked, call, offered, arrived, taken>>

-----------------------------------------------------------------------------
Outcomes == Answers \cup {"timeout", "broken"}

NoCall == [pc |-> "idle", id |-> None, answer |-> None]

Closed == receiver # "running"

Queued == Len(arrived) - taken

SendLocked == \E c \in Caller : call[c].pc = "sending"

Without(id) == [x \in DOMAIN pending \ {id} |-> pending[x]]

CdpInit ==
  /\ receiver = "running"
  /\ nextId = 1
  /\ pending = [x \in {} |-> None]
  /\ asked = {}
  /\ call = [c \in Caller |-> NoCall]
  /\ offered = 0
  /\ arrived = <<>>
  /\ taken = 0

-----------------------------------------------------------------------------
(* command(): up to the send lock.                                           *)
Command(c) ==
  /\ call[c].pc = "idle" /\ nextId <= MaxCommands
  /\ call' = [call EXCEPT ![c].pc = "wanting"]
  /\ UNCHANGED <<receiver, nextId, pending, asked, offered, arrived, taken>>

(* Under the lock: the id is taken, the future registered, the send started. *)
Register(c) ==
  /\ call[c].pc = "wanting" /\ ~SendLocked /\ ~Closed /\ nextId <= MaxCommands
  /\ nextId' = nextId + 1
  /\ pending' = [x \in DOMAIN pending \cup {nextId} |-> IF x = nextId THEN c ELSE pending[x]]
  /\ asked' = asked \cup {nextId}
  /\ call' = [call EXCEPT ![c] = [pc |-> "sending", id |-> nextId, answer |-> None]]
  /\ UNCHANGED <<receiver, offered, arrived, taken>>

Sent(c) ==
  /\ call[c].pc = "sending"
  /\ call' = [call EXCEPT ![c].pc = "awaiting"]
  /\ UNCHANGED <<receiver, nextId, pending, asked, offered, arrived, taken>>

(* command() is over for c, whose future is not registered any more.         *)
Leaves(c) ==
  /\ call' = [call EXCEPT ![c] = NoCall]
  /\ pending' = Without(call[c].id)
  /\ UNCHANGED <<receiver, nextId, asked, offered, arrived, taken>>

(* command() returns or raises.  A timeout wins over an answer that was set  *)
(* when the caller had not been resumed yet.                                 *)
Returns(c, outcome) ==
  /\ \/ call[c].pc = "wanting" /\ Closed /\ outcome = "closed"
     \/ call[c].pc = "sending" /\ outcome = "broken"
     \/ call[c].pc = "awaiting" /\ outcome = call[c].answer
     \/ call[c].pc = "awaiting" /\ outcome = "timeout"
  /\ Leaves(c)

(* The calling task is cancelled at its await.                               *)
CancelCall(c) == call[c].pc # "idle" /\ Leaves(c)

-----------------------------------------------------------------------------
(* receive_loop: one message of the transport at a time.                     *)

(* Mutant: an answer goes to whoever waits, whatever its id. *)
AnswerAnyone(id, what) ==
  /\ ~Closed /\ id \in asked
  /\ asked' = asked \ {id}
  /\ \/ /\ DOMAIN pending = {}
        /\ UNCHANGED <<pending, call>>
     \/ \E other \in DOMAIN pending :
          /\ pending' = Without(other)
          /\ call' = [call EXCEPT ![pending[other]].answer = what]
  /\ UNCHANGED <<receiver, nextId, offered, arrived, taken>>

(* A response whose id nobody waits for any more is ignored.                 *)
Answer(id, what) ==
  /\ ~Closed /\ id \in asked
  /\ asked' = asked \ {id}
  /\ \/ /\ id \notin DOMAIN pending
        /\ UNCHANGED <<pending, call>>
     \/ /\ id \in DOMAIN pending
        /\ pending' = Without(id)
        /\ call' = [call EXCEPT ![pending[id]].answer = what]
  /\ UNCHANGED <<receiver, nextId, offered, arrived, taken>>

Offered == ~Closed /\ offered < MaxEvents /\ offered' = offered + 1

Arrive(kind) ==
  /\ Offered /\ Queued < QueueSize
  /\ arrived' = Append(arrived, kind)
  /\ UNCHANGED <<receiver, nextId, pending, asked, call, taken>>

(* Mutant: the loop ends without a word to those who wait. *)
StopsSilently(how) ==
  /\ ~Closed
  /\ receiver' = how
  /\ UNCHANGED <<nextId, pending, asked, call, arrived, taken>>

(* The finally of receive_loop: every registered future is failed.           *)
Stops(how) ==
  /\ ~Closed
  /\ receiver' = how
  /\ pending' = [x \in {} |-> None]
  /\ call' = [c \in Caller |->
                IF \E id \in DOMAIN pending : pending[id] = c
                  THEN [call[c] EXCEPT !.answer = "closed"]
                  ELSE call[c]]
  /\ UNCHANGED <<nextId, asked, arrived, taken>>

(* The transport ends or fails, or the task is cancelled.                    *)
ReceiverStops(how) == Stops(how) /\ UNCHANGED offered

(* An event that finds the queue full fails the loop.                        *)
Overflow == Offered /\ Queued = QueueSize /\ Stops("failed")

(* next_event().                                                             *)
TakeEvent ==
  /\ Queued > 0
  /\ taken' = taken + 1
  /\ UNCHANGED <<receiver, nextId, pending, asked, call, offered, arrived>>

-----------------------------------------------------------------------------
(* The connection on its own, with callers that issue any commands.          *)
CdpNext ==
  \/ \E c \in Caller : Command(c) \/ Register(c) \/ Sent(c) \/ CancelCall(c)
  \/ \E c \in Caller, outcome \in Outcomes : Returns(c, outcome)
  \/ \E id \in asked, what \in {"result", "error"} : Answer(id, what)
  \/ \E kind \in Kind : Arrive(kind)
  \/ \E how \in {"ended", "failed", "cancelled"} : ReceiverStops(how)
  \/ Overflow \/ TakeEvent

CdpSpec == CdpInit /\ [][CdpNext]_cdpVars

-----------------------------------------------------------------------------
CallState ==
  [pc: {"idle", "wanting", "sending", "awaiting"}, id: Nat \cup {None},
   answer: Answers \cup {None}]

(* Ids are numbers below the next one, the registered futures belong to      *)
(* callers, and the queue never holds more than its size.                    *)
CdpTypeOK ==
  /\ receiver \in {"running", "ended", "failed", "cancelled"}
  /\ nextId \in 1..(MaxCommands + 1)
  /\ DOMAIN pending \subseteq 1..(nextId - 1)
  /\ \A id \in DOMAIN pending : pending[id] \in Caller
  /\ asked \subseteq 1..(nextId - 1)
  /\ call \in [Caller -> CallState]
  /\ offered \in 0..MaxEvents
  /\ arrived \in Seq(Kind) /\ Len(arrived) <= offered
  /\ taken \in 0..Len(arrived)
  /\ Queued <= QueueSize

(* Whoever waits without an answer is registered under its own id with a     *)
(* loop that still runs: no response is lost and no close goes unnoticed,    *)
(* so a caller never sits out its timeout for a connection that is gone.     *)
NobodyWaitsInVain ==
  \A c \in Caller :
    call[c].pc \in {"sending", "awaiting"} /\ call[c].answer = None =>
      ~Closed /\ call[c].id \in DOMAIN pending /\ pending[call[c].id] = c

(* Commands that timed out, failed or were cancelled leave nothing behind:   *)
(* each registered future is that of a caller still waiting for that id.     *)
NothingLeftPending ==
  \A id \in DOMAIN pending :
    LET c == pending[id] IN
    call[c].pc \in {"sending", "awaiting"} /\ call[c].id = id /\ call[c].answer = None

(* An answer reaches the command it answers: the late answer to a command    *)
(* that timed out never becomes the result of the caller's next one.         *)
AnswersMatch ==
  [][\A c \in Caller :
       call[c].answer = None /\ call'[c].answer \in {"result", "error"}
         => call[c].id \in asked \ asked']_cdpVars
=============================================================================
