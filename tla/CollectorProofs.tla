--------------------------- MODULE CollectorProofs --------------------------
(* Theorems about the connection and about a collector session for any       *)
(* number of coroutines, events and commands, any queue size and any flush   *)
(* interval.                                                                 *)
EXTENDS Collector, TLAPS

-----------------------------------------------------------------------------
(* The connection, for any number of coroutines, commands and events.        *)
USE CdpAssumption

(* A call has an id of its own from its registration on, and an answer only  *)
(* after that; with this the two safety invariants are inductive.            *)
CallShape ==
  \A c \in Caller :
    /\ call[c].pc \in {"sending", "awaiting"} => call[c].id \in 1..(nextId - 1)
    /\ call[c].pc \in {"idle", "wanting"} => call[c].id = None /\ call[c].answer = None
    /\ \A d \in Caller : c # d /\ call[c].id = call[d].id => call[c].id = None

CdpInv == CdpTypeOK /\ CallShape /\ NobodyWaitsInVain /\ NothingLeftPending

-----------------------------------------------------------------------------
LEMMA CdpInitInv == CdpInit => CdpInv
BY DEF CdpInit, CdpInv, CdpTypeOK, CallShape, NobodyWaitsInVain, NothingLeftPending,
       CallState, NoCall, Answers, Closed, Queued

(* What one caller does to its own call, the registered futures untouched.   *)
LEMMA MovesOn ==
  ASSUME CdpInv, NEW c \in Caller, NEW from, NEW to,
         call[c].pc = from, call' = [call EXCEPT ![c].pc = to],
         from \in {"idle", "sending"},
         from = "idle" => to = "wanting", from = "sending" => to = "awaiting",
         UNCHANGED <<receiver, nextId, pending, asked, offered, arrived, taken>>
  PROVE  CdpInv'
<1>1. /\ call \in [Caller -> CallState]
      /\ call'[c].pc = to /\ call'[c].id = call[c].id /\ call'[c].answer = call[c].answer
      /\ \A d \in Caller \ {c} : call'[d] = call[d]
  BY DEF CdpInv, CdpTypeOK, CallState
<1>2. \A d \in Caller : call'[d].id = call[d].id /\ call'[d].answer = call[d].answer
  BY <1>1
<1>3. \A d \in Caller :
        /\ call'[d].pc \in {"sending", "awaiting"} <=> call[d].pc \in {"sending", "awaiting"}
        /\ call'[d].pc \in {"idle", "wanting"} <=> call[d].pc \in {"idle", "wanting"}
  BY <1>1
<1>4. CdpTypeOK'
  <2>1. call' \in [Caller -> CallState]
    BY <1>1 DEF CallState
  <2> QED BY <2>1 DEF CdpInv, CdpTypeOK, Queued
<1>5. CallShape'
  BY <1>2, <1>3 DEF CdpInv, CallShape
<1>6. NobodyWaitsInVain'
  BY <1>2, <1>3 DEF CdpInv, NobodyWaitsInVain, Closed
<1>7. NothingLeftPending'
  <2>1. \A id \in DOMAIN pending : pending[id] \in Caller
    BY DEF CdpInv, CdpTypeOK
  <2> QED BY <1>2, <1>3, <2>1 DEF CdpInv, NothingLeftPending
<1> QED BY <1>4, <1>5, <1>6, <1>7 DEF CdpInv

LEMMA CommandInv == ASSUME CdpInv, NEW c \in Caller, Command(c) PROVE CdpInv'
BY MovesOn DEF Command

LEMMA SentInv == ASSUME CdpInv, NEW c \in Caller, Sent(c) PROVE CdpInv'
BY MovesOn DEF Sent

LEMMA RegisterInv == ASSUME CdpInv, NEW c \in Caller, Register(c) PROVE CdpInv'
<1>1. /\ nextId' = nextId + 1 /\ nextId \in 1..MaxCommands /\ nextId \notin DOMAIN pending
      /\ DOMAIN pending' = DOMAIN pending \cup {nextId}
      /\ \A id \in DOMAIN pending : id # nextId /\ pending'[id] = pending[id]
      /\ pending'[nextId] = c
      /\ call'[c] = [pc |-> "sending", id |-> nextId, answer |-> None]
      /\ \A other \in Caller \ {c} : call'[other] = call[other]
      /\ call[c].pc = "wanting" /\ ~Closed
  BY DEF Register, CdpInv, CdpTypeOK
<1>2. CdpTypeOK'
  BY <1>1 DEF Register, CdpInv, CdpTypeOK, CallState, Queued
<1>3. CallShape'
  <2>1. \A d \in Caller \ {c} : call[d].id # nextId
    BY <1>1 DEF CdpInv, CdpTypeOK, CallShape, CallState
  <2>2. call'[c].pc = "sending" /\ call'[c].id = nextId /\ nextId \in 1..(nextId' - 1)
    BY <1>1
  <2>3. ASSUME NEW d \in Caller, d # c
        PROVE  /\ call'[d].pc \in {"sending", "awaiting"} => call'[d].id \in 1..(nextId' - 1)
               /\ call'[d].pc \in {"idle", "wanting"} => call'[d].id = None /\ call'[d].answer = None
    BY <1>1, <2>3 DEF CdpInv, CallShape
  <2>4. ASSUME NEW d \in Caller, NEW e \in Caller, d # e, call'[d].id = call'[e].id
        PROVE  call'[d].id = None
    BY <1>1, <2>1, <2>2, <2>4 DEF CdpInv, CallShape
  <2> QED BY <2>2, <2>3, <2>4 DEF CallShape
<1>4. NobodyWaitsInVain'
  BY <1>1 DEF Register, CdpInv, NobodyWaitsInVain, Closed
<1>5. NothingLeftPending'
  BY <1>1, SMTT(30) DEF CdpInv, CdpTypeOK, NothingLeftPending
<1> QED BY <1>2, <1>3, <1>4, <1>5 DEF CdpInv

(* A command that is over: its caller is idle and its future is gone, all    *)
(* others are as they were.                                                  *)
LEMMA LeavesInv == ASSUME CdpInv, NEW c \in Caller, Leaves(c) PROVE CdpInv'
<1>1. /\ call'[c] = NoCall
      /\ \A other \in Caller \ {c} : call'[other] = call[other]
      /\ DOMAIN pending' = DOMAIN pending \ {call[c].id}
      /\ \A id \in DOMAIN pending' : pending'[id] = pending[id]
  BY DEF Leaves, Without, CdpInv, CdpTypeOK
<1>2. CdpTypeOK'
  BY <1>1 DEF Leaves, CdpInv, CdpTypeOK, CallState, NoCall, Queued
<1>3. CallShape'
  BY <1>1 DEF Leaves, CdpInv, CallShape, NoCall
<1>4. NobodyWaitsInVain'
  <2> SUFFICES ASSUME NEW d \in Caller, call'[d].pc \in {"sending", "awaiting"}, call'[d].answer = None
               PROVE  ~Closed' /\ call'[d].id \in DOMAIN pending' /\ pending'[call'[d].id] = d
    BY DEF NobodyWaitsInVain, Closed
  <2>1. d # c /\ call'[d] = call[d]
    BY <1>1 DEF NoCall
  <2>2. call[d].id \in DOMAIN pending /\ pending[call[d].id] = d /\ ~Closed
    BY <2>1 DEF CdpInv, NobodyWaitsInVain
  <2>3. call[d].id # call[c].id
    BY <2>1, <2>2 DEF CdpInv, CdpTypeOK, CallShape
  <2> QED BY <1>1, <2>1, <2>2, <2>3 DEF Leaves, Closed
<1>5. NothingLeftPending'
  BY <1>1 DEF CdpInv, CdpTypeOK, NothingLeftPending, NoCall
<1> QED BY <1>2, <1>3, <1>4, <1>5 DEF CdpInv

LEMMA AnswerInv ==
  ASSUME CdpInv, NEW id \in asked, NEW what \in {"result", "error"}, Answer(id, what)
  PROVE  CdpInv'
<1>1. CASE id \notin DOMAIN pending
  BY <1>1 DEF Answer, CdpInv, CdpTypeOK, CallShape, NobodyWaitsInVain, NothingLeftPending,
              Closed, Queued
<1>2. CASE id \in DOMAIN pending
  <2> DEFINE c == pending[id]
  <2>1. c \in Caller /\ call[c].id = id /\ call[c].pc \in {"sending", "awaiting"}
    BY <1>2 DEF CdpInv, CdpTypeOK, NothingLeftPending
  <2>2. /\ call' = [call EXCEPT ![c].answer = what]
        /\ DOMAIN pending' = DOMAIN pending \ {id}
        /\ \A x \in DOMAIN pending' : pending'[x] = pending[x]
        /\ what \in Answers /\ what \in {"result", "error"}
    BY <1>2 DEF Answer, Without, Answers
  <2>3. /\ call'[c].answer = what /\ call'[c].id = id /\ call'[c].pc = call[c].pc
        /\ call' \in [Caller -> CallState]
        /\ \A other \in Caller \ {c} : call'[other] = call[other]
    BY <2>1, <2>2, SMTT(30) DEF CdpInv, CdpTypeOK, CallState
  <2> HIDE DEF c
  <2>4. CdpTypeOK'
    BY <2>2, <2>3 DEF Answer, CdpInv, CdpTypeOK, Queued
  <2>5. CallShape'
    BY <2>1, <2>3 DEF Answer, CdpInv, CallShape
  <2>6. NobodyWaitsInVain'
    <3> SUFFICES ASSUME NEW d \in Caller, call'[d].pc \in {"sending", "awaiting"}, call'[d].answer = None
                 PROVE  ~Closed' /\ call'[d].id \in DOMAIN pending' /\ pending'[call'[d].id] = d
      BY DEF NobodyWaitsInVain, Closed
    <3>1. d # c
      BY <2>2, <2>3
    <3>2. call'[d] = call[d]
      BY <2>3, <3>1
    <3>3. ~Closed /\ call[d].id \in DOMAIN pending /\ pending[call[d].id] = d
      BY <3>2 DEF CdpInv, NobodyWaitsInVain
    <3>4. call[d].id # id
      BY <3>1, <3>3 DEF c
    <3>5. receiver' = receiver
      BY DEF Answer
    <3> QED BY <2>2, <3>2, <3>3, <3>4, <3>5 DEF Closed
  <2>7. NothingLeftPending'
    <3> SUFFICES ASSUME NEW x \in DOMAIN pending'
                 PROVE  LET d == pending'[x] IN
                        call'[d].pc \in {"sending", "awaiting"} /\ call'[d].id = x /\ call'[d].answer = None
      BY DEF NothingLeftPending
    <3>1. x \in DOMAIN pending /\ x # id /\ pending'[x] = pending[x] /\ pending[x] \in Caller
      BY <2>2 DEF CdpInv, CdpTypeOK
    <3>2. pending[x] # c
      BY <2>1, <3>1 DEF CdpInv, NothingLeftPending
    <3> QED BY <2>3, <3>1, <3>2 DEF CdpInv, NothingLeftPending
  <2> QED BY <2>4, <2>5, <2>6, <2>7 DEF CdpInv
<1> QED BY <1>1, <1>2

LEMMA ArriveInv == ASSUME CdpInv, NEW kind \in Kind, Arrive(kind) PROVE CdpInv'
<1>1. CdpTypeOK'
  BY DEF Arrive, Offered, CdpInv, CdpTypeOK, Queued
<1>2. CallShape' /\ NobodyWaitsInVain' /\ NothingLeftPending'
  BY DEF Arrive, CdpInv, CallShape, NobodyWaitsInVain, NothingLeftPending, Closed
<1> QED BY <1>1, <1>2 DEF CdpInv

(* The end of the receive loop empties the table of futures and answers all  *)
(* who were in it, so nobody is left waiting.                                *)
LEMMA StopsInv ==
  ASSUME CdpInv, NEW how \in {"ended", "failed", "cancelled"}, Stops(how),
         offered' \in {offered, offered + 1}, offered' \in 0..MaxEvents
  PROVE  CdpInv'
<1>1. /\ DOMAIN pending' = {}
      /\ \A c \in Caller :
           /\ call'[c].pc = call[c].pc /\ call'[c].id = call[c].id
           /\ call'[c] = call[c] \/ call'[c].answer = "closed"
           /\ (\E id \in DOMAIN pending : pending[id] = c) => call'[c].answer = "closed"
           /\ call'[c].answer = "closed" /\ call'[c] # call[c]
                => \E id \in DOMAIN pending : pending[id] = c
           /\ call'[c] \in CallState
  BY DEF Stops, CdpInv, CdpTypeOK, CallState, Answers
<1>2. CdpTypeOK'
  <2>1. call' \in [Caller -> CallState]
    BY <1>1 DEF Stops
  <2> QED BY <1>1, <2>1 DEF Stops, CdpInv, CdpTypeOK, Queued
<1>3. CallShape'
  <2>1. \A c \in Caller : call[c].pc \in {"idle", "wanting"} => call'[c] = call[c]
    BY <1>1 DEF CdpInv, NothingLeftPending
  <2>2. nextId' = nextId
    BY DEF Stops
  <2>3. CallShape
    BY DEF CdpInv
  <2>4. ASSUME NEW c \in Caller, NEW d \in Caller, c # d, call'[c].id = call'[d].id
        PROVE  call'[c].id = None
    BY <1>1, <2>3, <2>4 DEF CallShape
  <2>5. ASSUME NEW c \in Caller
        PROVE  /\ call'[c].pc \in {"sending", "awaiting"} => call'[c].id \in 1..(nextId' - 1)
               /\ call'[c].pc \in {"idle", "wanting"} => call'[c].id = None /\ call'[c].answer = None
    BY <1>1, <2>1, <2>2, <2>3 DEF CallShape
  <2> QED BY <2>4, <2>5 DEF CallShape
<1>4. NobodyWaitsInVain'
  <2>1. \A c \in Caller :
          call'[c].pc \in {"sending", "awaiting"} => call'[c].answer # None
    BY <1>1 DEF CdpInv, NobodyWaitsInVain, Answers
  <2> QED BY <2>1 DEF NobodyWaitsInVain
<1>5. NothingLeftPending'
  BY <1>1 DEF NothingLeftPending
<1> QED BY <1>2, <1>3, <1>4, <1>5 DEF CdpInv

LEMMA TakeEventInv == ASSUME CdpInv, TakeEvent PROVE CdpInv'
BY DEF TakeEvent, CdpInv, CdpTypeOK, CallShape, NobodyWaitsInVain, NothingLeftPending,
       Closed, Queued

LEMMA CdpNextInv == CdpInv /\ [CdpNext]_cdpVars => CdpInv'
<1> SUFFICES ASSUME CdpInv, [CdpNext]_cdpVars PROVE CdpInv'
  OBVIOUS
<1>1. CASE UNCHANGED cdpVars
  BY <1>1 DEF cdpVars, CdpInv, CdpTypeOK, CallShape, NobodyWaitsInVain, NothingLeftPending,
              Closed, Queued
<1>2. ASSUME NEW c \in Caller, Command(c) \/ Register(c) \/ Sent(c) \/ CancelCall(c)
      PROVE  CdpInv'
  BY <1>2, CommandInv, RegisterInv, SentInv, LeavesInv DEF CancelCall
<1>3. ASSUME NEW c \in Caller, NEW result \in Outcomes, Returns(c, result) PROVE CdpInv'
  BY <1>3, LeavesInv DEF Returns
<1>4. ASSUME NEW how \in {"ended", "failed", "cancelled"}, ReceiverStops(how) PROVE CdpInv'
  <2>1. offered' \in {offered, offered + 1} /\ offered' \in 0..MaxEvents
    BY <1>4 DEF ReceiverStops, CdpInv, CdpTypeOK
  <2> QED BY <1>4, <2>1, StopsInv DEF ReceiverStops
<1>5. ASSUME Overflow PROVE CdpInv'
  <2>1. offered' \in {offered, offered + 1} /\ offered' \in 0..MaxEvents
    BY <1>5 DEF Overflow, Offered, CdpInv, CdpTypeOK
  <2> QED BY <1>5, <2>1, StopsInv DEF Overflow
<1> QED
  BY <1>1, <1>2, <1>3, <1>4, <1>5, AnswerInv, ArriveInv, TakeEventInv DEF CdpNext

-----------------------------------------------------------------------------
(* The connection keeps its shape, in particular a queue within its size.    *)
THEOREM ConnectionTypeCorrect == CdpSpec => []CdpTypeOK
<1>1. CdpInv => CdpTypeOK
  BY DEF CdpInv
<1> QED BY <1>1, CdpInitInv, CdpNextInv, PTL DEF CdpSpec

(* However many coroutines share the connection, none waits for an answer    *)
(* that cannot come any more.                                                *)
THEOREM WaitingIsRegistered == CdpSpec => []NobodyWaitsInVain
<1>1. CdpInv => NobodyWaitsInVain
  BY DEF CdpInv
<1> QED BY <1>1, CdpInitInv, CdpNextInv, PTL DEF CdpSpec

(* The table of futures holds those of waiting commands only, whichever way  *)
(* the others ended.                                                         *)
THEOREM RegisteredIsWaiting == CdpSpec => []NothingLeftPending
<1>1. CdpInv => NothingLeftPending
  BY DEF CdpInv
<1> QED BY <1>1, CdpInitInv, CdpNextInv, PTL DEF CdpSpec

(* An answer that is set is the one to the command the caller has under way. *)
THEOREM AnswersReachTheirCommand == CdpSpec => AnswersMatch
<1> DEFINE Match == \A c \in Caller :
             call[c].answer = None /\ call'[c].answer \in {"result", "error"}
               => call[c].id \in asked \ asked'
<1>1. ASSUME CdpInv, [CdpNext]_cdpVars PROVE [Match]_cdpVars
  <2>1. ASSUME NEW id \in asked, NEW what \in {"result", "error"}, Answer(id, what)
        PROVE  Match
    <3>1. asked' = asked \ {id}
      BY <2>1 DEF Answer
    <3>2. CASE id \in DOMAIN pending
      <4>1. pending[id] \in Caller /\ call[pending[id]].id = id
        BY <1>1, <3>2 DEF CdpInv, CdpTypeOK, NothingLeftPending
      <4>2. \A c \in Caller \ {pending[id]} : call'[c] = call[c]
        BY <1>1, <2>1, <3>2 DEF Answer, CdpInv, CdpTypeOK
      <4> QED BY <3>1, <4>1, <4>2 DEF Answers
    <3>3. CASE id \notin DOMAIN pending
      BY <2>1, <3>3 DEF Answer, Answers
    <3> QED BY <3>2, <3>3
  <2>2. ASSUME \A c \in Caller : call'[c] = call[c] \/ call'[c].answer \notin {"result", "error"}
        PROVE  Match
    BY <2>2 DEF Answers
  <2>3. ASSUME NEW c \in Caller, Command(c) \/ Register(c) \/ Sent(c) PROVE Match
    <3>1. \A d \in Caller : call'[d].answer = call[d].answer \/ call'[d].answer = None
      BY <1>1, <2>3 DEF Command, Register, Sent, CdpInv, CdpTypeOK, CallState
    <3> QED BY <3>1 DEF Answers
  <2>4. ASSUME NEW c \in Caller, Leaves(c) PROVE Match
    <3>1. \A d \in Caller : call'[d] = call[d] \/ call'[d].answer = None
      BY <1>1, <2>4 DEF Leaves, NoCall, CdpInv, CdpTypeOK
    <3> QED BY <2>2, <3>1 DEF Answers
  <2>5. ASSUME NEW how, Stops(how) PROVE Match
    <3>1. \A d \in Caller : call'[d] = call[d] \/ call'[d].answer = "closed"
      BY <1>1, <2>5 DEF Stops, CdpInv, CdpTypeOK, CallState
    <3> QED BY <2>2, <3>1
  <2>6. ASSUME UNCHANGED call PROVE Match
    BY <2>2, <2>6
  <2> QED
    BY <1>1, <2>1, <2>3, <2>4, <2>5, <2>6
       DEF CdpNext, CancelCall, Returns, ReceiverStops, Overflow, Arrive, TakeEvent, cdpVars
<1>2. CdpSpec => [][Match]_cdpVars
  BY <1>1, CdpInitInv, CdpNextInv, PTL DEF CdpSpec
<1> QED BY <1>2 DEF AnswersMatch

-----------------------------------------------------------------------------
(* The session.                                                              *)
HIDE CdpAssumption

(* What is on disk and in memory, at every step: the records are numbered    *)
(* contiguously, a number is lost only with a failed task, a torn line is    *)
(* left only by a dead process, the file is complete from the flush on, and  *)
(* a verdict is given at the very end only.                                  *)
Numbered == \A k \in 1..Len(log) : log[k].seq = k - 1

LogInv ==
  /\ log \in Seq(Record) /\ sequence \in Nat
  /\ Numbered
  /\ Len(log) <= sequence
  /\ at # "failed" => sequence = Len(log)
  /\ phase \in {"prepare", "connect"} => at = "none"

FileInv ==
  /\ file \in [whole: Nat, torn: BOOLEAN]
  /\ manifest \in [status: {"running", "completed", "cancelled", "failed"}, listed: BOOLEAN]
  /\ file.whole <= Len(log)
  /\ file.torn => phase = "over" /\ file.whole < Len(log)
  /\ phase = "seal" => file.whole = Len(log)
  /\ manifest.status # "running" => phase = "over" /\ file.whole = Len(log) /\ ~file.torn
  /\ Len(log) > 0 => manifest.listed
  /\ outcome \in {"none", "cancelled", "failed"}

SessionInv == LogInv /\ FileInv

-----------------------------------------------------------------------------
(* Appending the records of one handler, or the first of them.               *)
LEMMA FlushedIsPrefix == ASSUME NEW n \in Nat PROVE Flushed(n) \in 0..n
<1>1. FlushEvery \in Nat /\ FlushEvery > 0
  BY CollectorAssumption
<1>2. n \div FlushEvery \in Nat /\ (n \div FlushEvery) * FlushEvery <= n
  BY <1>1
<1> QED BY <1>1, <1>2 DEF Flushed

LEMMA AppendedRecords ==
  ASSUME LogInv, sequence = Len(log), NEW event \in Nat,
         NEW whats \in Seq({"event", "body", "link"}), NEW n \in 0..Len(whats)
  PROVE  LET longer == log \o SubSeq(RecordsOf(event, whats), 1, n) IN
         /\ longer \in Seq(Record) /\ Len(longer) = Len(log) + n
         /\ \A k \in 1..Len(longer) : longer[k].seq = k - 1
         /\ SubSeq(longer, 1, Len(log)) = log
<1> DEFINE new == RecordsOf(event, whats)
           some == SubSeq(new, 1, n)
           longer == log \o some
<1>1. new \in Seq(Record) /\ Len(new) = Len(whats)
  BY DEF RecordsOf, LogInv, Record
<1>2. \A k \in 1..Len(new) : new[k].seq = sequence + k - 1
  BY DEF RecordsOf
<1> HIDE DEF new
<1>3. some \in Seq(Record) /\ Len(some) = n /\ \A k \in 1..n : some[k] = new[k]
  BY <1>1
<1> HIDE DEF some
<1>4. /\ longer \in Seq(Record) /\ Len(longer) = Len(log) + n
      /\ \A k \in 1..Len(log) : longer[k] = log[k]
      /\ \A k \in 1..n : longer[Len(log) + k] = some[k]
  BY <1>3 DEF LogInv
<1> HIDE DEF longer
<1>5. ASSUME NEW k \in 1..Len(longer) PROVE longer[k].seq = k - 1
  <2>1. CASE k \in 1..Len(log)
    BY <1>4, <2>1 DEF LogInv, Numbered
  <2>2. CASE k \notin 1..Len(log)
    <3>1. k - Len(log) \in 1..n /\ k = Len(log) + (k - Len(log))
      BY <1>4, <2>2 DEF LogInv
    <3>2. longer[k] = new[k - Len(log)]
      BY <1>3, <1>4, <3>1
    <3> QED BY <1>1, <1>2, <3>1, <3>2 DEF LogInv
  <2> QED BY <2>1, <2>2
<1>6. SubSeq(longer, 1, Len(log)) = log
  BY <1>4 DEF LogInv
<1> QED BY <1>4, <1>5, <1>6 DEF longer, some, new

-----------------------------------------------------------------------------
LEMMA SessionInit == Init => SessionInv
BY DEF Init, SessionInv, LogInv, FileInv, Numbered

(* The steps that record nothing and are not of finalize.                    *)
LEMMA QuietStep ==
  ASSUME SessionInv, UNCHANGED <<sequence, log, file, manifest>>,
         at = "failed" => at' = "failed", phase # "over", phase' # "seal",
         phase' \in {"prepare", "connect"} => at' = "none",
         outcome' \in {"none", "cancelled", "failed"}
  PROVE  SessionInv'
BY DEF SessionInv, LogInv, FileInv, Numbered

(* A handler's records, on a disk that takes them or one that fails.         *)
LEMMA RecordingStep ==
  ASSUME SessionInv, at # "failed", InGroup, NEW event \in Nat,
         NEW whats \in Seq({"event", "body", "link"}), Len(whats) > 0, Records(event, whats)
  PROVE  SessionInv' /\ SubSeq(log', 1, Len(log)) = log /\ Len(log') >= Len(log)
         /\ file'.whole \in file.whole..Len(log') /\ manifest'.status = manifest.status
<1> DEFINE new == RecordsOf(event, whats)
<1>1. sequence = Len(log) /\ LogInv /\ FileInv /\ Len(log) \in Nat
      /\ phase' = phase /\ phase \in {"bootstrap", "collect"} /\ outcome' = outcome
  BY DEF SessionInv, LogInv, Records, InGroup
<1>2. new \in Seq(Record) /\ Len(new) = Len(whats) /\ SubSeq(new, 1, Len(whats)) = new
  BY <1>1 DEF RecordsOf, LogInv, Record
<1>3. CASE Write(event, whats) /\ at' = "waiting"
  <2>1. /\ log' = log \o SubSeq(new, 1, Len(whats))
        /\ sequence' = sequence + Len(whats)
        /\ file' = [file EXCEPT !.whole = IF Flushed(Len(log')) > @ THEN Flushed(Len(log')) ELSE @]
        /\ manifest' = [manifest EXCEPT !.listed = TRUE]
    BY <1>2, <1>3 DEF Write
  <2>0. Len(whats) \in 0..Len(whats)
    OBVIOUS
  <2> HIDE DEF new
  <2>2. /\ log' \in Seq(Record) /\ Len(log') = Len(log) + Len(whats)
        /\ Numbered' /\ SubSeq(log', 1, Len(log)) = log
    BY <1>1, <2>0, <2>1, AppendedRecords DEF new, Numbered
  <2>3. LogInv'
    BY <1>1, <1>3, <2>1, <2>2 DEF LogInv
  <2>4. Flushed(Len(log')) \in 0..Len(log')
    BY <2>2, FlushedIsPrefix
  <2>5. file' \in [whole: Nat, torn: BOOLEAN] /\ file'.torn = file.torn
        /\ file'.whole \in file.whole..Len(log')
    <3>1. file \in [whole: Nat, torn: BOOLEAN] /\ file.whole <= Len(log) /\ Len(whats) \in Nat
      BY <1>1 DEF FileInv
    <3>2. Len(log') \in Nat /\ file.whole \in 0..Len(log')
      BY <1>1, <2>2, <3>1
    <3> QED BY <2>1, <2>4, <3>1, <3>2
  <2>6. FileInv'
    <3>1. manifest' \in [status: {"running", "completed", "cancelled", "failed"}, listed: BOOLEAN]
          /\ manifest'.status = manifest.status /\ manifest'.listed
      BY <1>1, <2>1 DEF FileInv
    <3>2. ~file'.torn /\ manifest'.status = "running" /\ phase' # "seal" /\ phase' # "over"
      BY <1>1, <2>5, <3>1 DEF FileInv
    <3>3. outcome' \in {"none", "cancelled", "failed"} /\ file'.whole <= Len(log')
      BY <1>1, <2>2, <2>5 DEF FileInv
    <3> QED BY <2>5, <3>1, <3>2, <3>3 DEF FileInv
  <2> QED BY <2>1, <2>2, <2>3, <2>5, <2>6, <1>1 DEF SessionInv, FileInv
<1>4. CASE WriteFails(event, whats) /\ Raises
  <2>1. PICK k \in 1..Len(whats), kept \in 0..1 :
          /\ sequence' = sequence + k
          /\ log' = log \o SubSeq(new, 1, k - 1 + kept)
    BY <1>4 DEF WriteFails
  <2>2. PICK listed \in {manifest.listed, TRUE} :
          /\ log' # <<>> => listed
          /\ manifest' = [manifest EXCEPT !.listed = listed]
    BY <1>4 DEF WriteFails
  <2>3. file' = file /\ at' = "failed"
    BY <1>4 DEF WriteFails, Raises
  <2> HIDE DEF new
  <2>4. k - 1 + kept \in 0..Len(whats)
    BY <2>1
  <2>5. /\ log' \in Seq(Record) /\ Len(log') = Len(log) + (k - 1 + kept)
        /\ Numbered' /\ SubSeq(log', 1, Len(log)) = log
    BY <1>1, <2>1, <2>4, AppendedRecords DEF new, Numbered
  <2>6. LogInv'
    BY <1>1, <2>1, <2>3, <2>5 DEF LogInv
  <2>7. manifest' \in [status: {"running", "completed", "cancelled", "failed"}, listed: BOOLEAN]
        /\ manifest'.status = manifest.status /\ (log' # <<>> => manifest'.listed)
    BY <1>1, <2>2 DEF FileInv
  <2>8. FileInv'
    BY <1>1, <2>3, <2>4, <2>5, <2>7 DEF FileInv
  <2> QED BY <1>1, <2>3, <2>4, <2>5, <2>6, <2>7, <2>8 DEF SessionInv, FileInv
<1> QED BY <1>3, <1>4 DEF Records

(* The handlers that record, and what they record.                           *)
LEMMA RecordingSteps ==
  ASSUME CdpInv, TakeObserved \/ \E result \in Outcomes : BodyReturns(result)
  PROVE  /\ at # "failed" /\ InGroup
         /\ \E event \in Nat, whats \in Seq({"event", "body", "link"}) :
              Len(whats) > 0 /\ Records(event, whats)
<1>1. taken \in Nat /\ taken + 1 \in Nat
  BY DEF CdpInv, CdpTypeOK
<1> DEFINE Good(whats) == whats \in Seq({"event", "body", "link"}) /\ Len(whats) > 0
<1>2. Good(<<"event">>) /\ Good(<<"event", "link">>) /\ Good(<<"body", "event">>)
  OBVIOUS
<1> HIDE DEF Good
<1>3. ASSUME TakeObserved
      PROVE  /\ at # "failed" /\ InGroup
             /\ \E whats : Good(whats) /\ Records(taken + 1, whats)
  <2>1. PICK whats \in {<<"event">>, <<"event", "link">>} : Records(taken + 1, whats)
    BY <1>3 DEF TakeObserved
  <2>2. Good(whats)
    BY <1>2
  <2> QED BY <1>3, <2>1, <2>2 DEF TakeObserved, InGroup
<1>4. ASSUME NEW result \in Outcomes, BodyReturns(result)
      PROVE  /\ at # "failed" /\ InGroup
             /\ \E whats : Good(whats) /\ Records(taken, whats)
  BY <1>2, <1>4 DEF BodyReturns
<1>5. CASE TakeObserved
  BY <1>1, <1>3, <1>5 DEF Good
<1>6. CASE \E result \in Outcomes : BodyReturns(result)
  BY <1>1, <1>4, <1>6 DEF Good
<1> QED BY <1>5, <1>6

(* Everything else in the life of a session leaves the records, the file and *)
(* the manifest alone, or is finalize or the end of the process.             *)
LEMMA OtherSteps ==
  ASSUME SessionInv, Next
  PROVE  \/ TakeObserved \/ \E result \in Outcomes : BodyReturns(result)
         \/ Flush \/ Seal \/ Dies
         \/ /\ UNCHANGED <<sequence, log, file, manifest>>
            /\ at = "failed" => at' = "failed"
            /\ phase # "over" /\ phase' # "seal"
            /\ phase' \in {"prepare", "connect"} => at' = "none"
            /\ outcome' \in {"none", "cancelled", "failed"}
<1>1. (phase \in {"prepare", "connect"} => at = "none") /\ outcome \in {"none", "cancelled", "failed"}
  BY DEF SessionInv, LogInv, FileInv
<1> DEFINE Quiet == /\ UNCHANGED <<sequence, log, file, manifest>>
                    /\ at = "failed" => at' = "failed"
                    /\ phase # "over" /\ phase' # "seal"
                    /\ phase' \in {"prepare", "connect"} => at' = "none"
                    /\ outcome' \in {"none", "cancelled", "failed"}
<1>2. ASSUME Issue \/ TakeForeign \/ TakeCommanding \/ TimerFires \/ AfterTimer PROVE Quiet
  BY <1>1, <1>2 DEF Issue, TakeForeign, TakeCommanding, TimerFires, AfterTimer, own, NoRecord,
              Asking, InGroup
<1>3. ASSUME NEW result \in Outcomes, Orchestrate(result) PROVE Quiet
  BY <1>1, <1>3 DEF Orchestrate, ListReturns, AttachReturns, ConfigureReturns, Settles, InGroup
<1>4. ASSUME NEW result \in Outcomes, CommandRaises(result) PROVE Quiet
  BY <1>1, <1>4 DEF CommandRaises, Raises, NoRecord, InGroup
<1>5. ASSUME CancelReceiver \/ CancelConsumer PROVE Quiet
  BY <1>1, <1>5 DEF CancelReceiver, CancelConsumer, own, InGroup, Over
<1>6. ASSUME Prepare \/ Connect \/ ConnectFails \/ LeaveGroup \/ Disconnect PROVE Quiet
  BY <1>1, <1>6 DEF Prepare, Connect, ConnectFails, LeaveGroup, Disconnect, InGroup, Over
<1>7. ASSUME Browser \/ ReceiverFails \/ PrepareFails \/ Interrupt PROVE Quiet
  BY <1>1, <1>7 DEF Browser, ReceiverFails, PrepareFails, Interrupt, own, InGroup
<1> QED BY <1>2, <1>3, <1>4, <1>5, <1>6, <1>7 DEF Next, Work, Abort, MainStep

LEMMA FinalizingStep ==
  ASSUME SessionInv, Flush \/ Seal \/ Dies
  PROVE  SessionInv'
<1>1. LogInv'
  BY DEF SessionInv, LogInv, Numbered, Flush, Seal, Dies
<1>2. Len(log) \in Nat
  BY DEF SessionInv, LogInv
<1>3. CASE Flush
  BY <1>1, <1>2, <1>3 DEF SessionInv, FileInv, Flush
<1>4. CASE Seal
  <2>1. Status \in {"completed", "cancelled", "failed"}
    BY DEF Status, SessionInv, FileInv
  <2> QED BY <1>1, <1>2, <1>4, <2>1 DEF SessionInv, FileInv, Seal
<1>5. CASE Dies
  BY <1>1, <1>2, <1>5 DEF SessionInv, FileInv, Dies
<1> QED BY <1>3, <1>4, <1>5

LEMMA SessionNext == CdpInv /\ SessionInv /\ [Next]_vars => SessionInv'
<1> SUFFICES ASSUME CdpInv, SessionInv, [Next]_vars PROVE SessionInv'
  OBVIOUS
<1>1. CASE UNCHANGED vars
  BY <1>1 DEF vars, own, SessionInv, LogInv, FileInv, Numbered
<1>2. CASE TakeObserved \/ \E result \in Outcomes : BodyReturns(result)
  BY <1>2, RecordingSteps, RecordingStep
<1>3. CASE Flush \/ Seal \/ Dies
  BY <1>3, FinalizingStep
<1>4. CASE Next
  BY <1>2, <1>3, <1>4, OtherSteps, QuietStep
<1> QED BY <1>1, <1>4

-----------------------------------------------------------------------------
(* The session uses its connection as module Cdp lets callers use it.        *)
LEMMA ConnectionStep == [Next]_vars => [CdpNext]_cdpVars
<1> SUFFICES ASSUME [Next]_vars PROVE [CdpNext]_cdpVars
  OBVIOUS
<1>0. Main \in Caller
  BY CollectorAssumption
<1>1. ASSUME Issue PROVE CdpNext
  BY <1>0, <1>1 DEF Issue, CdpNext
<1>2. ASSUME TakeForeign \/ TakeObserved \/ TakeCommanding PROVE CdpNext
  BY <1>2 DEF TakeForeign, TakeObserved, TakeCommanding, CdpNext
<1>3. ASSUME NEW result \in Outcomes,
             Orchestrate(result) \/ CommandRaises(result) \/ BodyReturns(result)
      PROVE  CdpNext
  BY <1>0, <1>3 DEF Orchestrate, CommandRaises, BodyReturns, CdpNext
<1>4. ASSUME CancelReceiver \/ CancelConsumer PROVE [CdpNext]_cdpVars
  BY <1>0, <1>4 DEF CancelReceiver, CancelConsumer, CdpNext
<1>5. ASSUME Browser \/ ReceiverFails PROVE CdpNext
  BY <1>5 DEF Browser, ReceiverFails, CdpNext
<1>6. ASSUME TimerFires \/ AfterTimer \/ MainStep \/ PrepareFails \/ Interrupt \/ Dies
      PROVE  UNCHANGED cdpVars
  BY <1>6 DEF TimerFires, AfterTimer, MainStep, Prepare, Connect, ConnectFails, LeaveGroup,
              Disconnect, Flush, Seal, PrepareFails, Interrupt, Dies
<1> QED BY <1>1, <1>2, <1>3, <1>4, <1>5, <1>6 DEF Next, Work, Abort, vars

LEMMA SessionAlways == Spec => [](CdpInv /\ SessionInv)
<1>1. Init => CdpInv /\ SessionInv
  BY CdpInitInv, SessionInit DEF Init
<1>2. CdpInv /\ SessionInv /\ [Next]_vars => (CdpInv /\ SessionInv)'
  BY ConnectionStep, CdpNextInv, SessionNext
<1> QED BY <1>1, <1>2, PTL DEF Spec

(* Whatever interrupts a session, one that analyses accept has its records   *)
(* whole on disk and numbered contiguously from zero.                        *)
THEOREM AnalysableSessionsAreWhole == Spec => []AnalysableIsWhole
<1>1. SessionInv => AnalysableIsWhole
  BY DEF SessionInv, LogInv, FileInv, Numbered, AnalysableIsWhole, Analysable
<1> QED BY <1>1, SessionAlways, PTL

(* Records on disk are in a file the manifest names.                         *)
THEOREM WrittenSessionsAreListed == Spec => []WrittenIsListed
<1>1. SessionInv => WrittenIsListed
  BY DEF SessionInv, LogInv, FileInv, WrittenIsListed
<1> QED BY <1>1, SessionAlways, PTL

(* The command under way in a session is never one that waits in vain.       *)
THEOREM SessionsWaitForAnswersToCome == Spec => []NobodyWaitsInVain
<1>1. CdpInv => NobodyWaitsInVain
  BY DEF CdpInv
<1> QED BY <1>1, SessionAlways, PTL

(* The session implements the archive: its file is a growing prefix of what  *)
(* it recorded, and its verdict comes once, when everything is on disk.      *)
THEOREM SessionImplementsArchive == Spec => ImplementsArchive
<1> DEFINE verdict == IF manifest.status = "running" THEN "open" ELSE manifest.status
<1>1. Init => Archive!Open
  BY DEF Init, Archive!Open
<1>2. ASSUME CdpInv, SessionInv, [Next]_vars
      PROVE  [Archive!Make \/ Archive!Judge]_<<log, file.whole, verdict>>
  <2>0. /\ log \in Seq(Record) /\ Len(log) \in Nat /\ SubSeq(log, 1, Len(log)) = log
        /\ file.whole \in Nat /\ file.whole <= Len(log)
        /\ phase # "over" => manifest.status = "running"
    BY <1>2 DEF SessionInv, LogInv, FileInv
  <2>1. CASE UNCHANGED <<log, file, manifest>>
    BY <2>1
  <2>2. CASE TakeObserved \/ \E result \in Outcomes : BodyReturns(result)
    <3>1. /\ SubSeq(log', 1, Len(log)) = log /\ Len(log') >= Len(log)
          /\ file'.whole \in file.whole..Len(log') /\ manifest'.status = manifest.status
          /\ InGroup
      BY <1>2, <2>2, RecordingSteps, RecordingStep
    <3>2. manifest.status = "running"
      BY <2>0, <3>1 DEF InGroup
    <3> QED BY <3>1, <3>2 DEF Archive!Make, Archive!Extends
  <2>3. CASE Flush
    BY <2>0, <2>3 DEF Flush, Archive!Make, Archive!Extends
  <2>4. CASE Dies
    <3>1. log' = log /\ manifest' = manifest /\ file'.whole \in file.whole..Len(log)
      BY <2>4 DEF Dies
    <3> QED BY <2>0, <2>4, <3>1 DEF Dies, Archive!Make, Archive!Extends
  <2>5. CASE Seal
    <3>1. Status \in {"completed", "cancelled", "failed"} /\ file.whole = Len(log)
      BY <1>2, <2>5 DEF Seal, Status, SessionInv, FileInv
    <3>2. manifest'.status = Status /\ UNCHANGED <<log, file>>
      BY <1>2, <2>5 DEF Seal, SessionInv, FileInv
    <3> QED BY <2>0, <2>5, <3>1, <3>2 DEF Seal, Archive!Judge
  <2>6. CASE UNCHANGED vars
    BY <2>1, <2>6 DEF vars, own
  <2> QED BY <1>2, <2>1, <2>2, <2>3, <2>4, <2>5, <2>6, OtherSteps
<1> QED BY <1>1, <1>2, SessionAlways, PTL DEF Spec, Init, ImplementsArchive, Archive!ArchiveSpec, Archive!archive
-----------------------------------------------------------------------------
(* Nothing is lost.  While no task has failed every event offered was        *)
(* queued, records are of events taken, and the event whose body is being    *)
(* fetched has none yet; and a group that failed never ends as completed.    *)
Accounted ==
  /\ offered = Len(arrived)
  /\ \A i \in 1..taken :
       arrived[i] \in {"observe", "body"} /\ ~Unfinished(i)
         => \E k \in RecordsFor(i, "event") : RecordsFor(i, "event") = {k}
  /\ \A j, k \in 1..Len(log) : j < k => log[j].event <= log[k].event
  /\ \A k \in 1..Len(log) : log[k].event \in 1..taken
  /\ at = "body" => taken > 0 /\ \A k \in 1..Len(log) : log[k].event < taken

LossInv ==
  /\ at = "failed" => failing
  /\ phase \in {"disconnect", "flush", "seal"} /\ outcome = "none" => ~failing
  /\ manifest.status = "completed" => ~failing
  /\ ~failing => Accounted

LEMMA Appended ==
  ASSUME NEW S, NEW s \in Seq(S), NEW t \in Seq(S)
  PROVE  /\ Len(s \o t) = Len(s) + Len(t)
         /\ \A k \in 1..Len(s) : (s \o t)[k] = s[k]
         /\ \A k \in 1..Len(t) : (s \o t)[Len(s) + k] = t[k]
OBVIOUS

(* One handler's records, one of them the event's own, all for the event it  *)
(* took last, which had none before.                                         *)
LEMMA AccountedRecords ==
  ASSUME CdpInv, SessionInv, Accounted, sequence = Len(log),
         NEW whats \in Seq({"event", "body", "link"}), NEW place \in 1..Len(whats),
         \A j \in 1..Len(whats) : whats[j] = "event" <=> j = place,
         NEW event \in Nat, event > 0, taken' = event,
         \A i \in 1..event : i # event => i \in 1..taken /\ ~Unfinished(i),
         \A k \in 1..Len(log) : log[k].event \in Nat /\ log[k].event > 0 /\ log[k].event < event,
         UNCHANGED <<arrived, offered>>, log' = log \o RecordsOf(event, whats), at' = "waiting"
  PROVE  Accounted'
<1> DEFINE n == Len(log)
           new == RecordsOf(event, whats)
<1>1. /\ log \in Seq(Record) /\ n \in Nat /\ Len(whats) \in Nat
      /\ new \in Seq(Record) /\ Len(new) = Len(whats)
      /\ \A j \in 1..Len(whats) : new[j].event = event /\ new[j].what = whats[j]
  BY DEF SessionInv, LogInv, RecordsOf, Record
<1>2. /\ Len(log') = n + Len(whats)
      /\ \A k \in 1..n : log'[k] = log[k]
      /\ \A k \in 1..Len(log') : k \notin 1..n =>
           /\ k - n \in 1..Len(whats)
           /\ log'[k].event = event /\ log'[k].what = whats[k - n]
  <2>1. log' = log \o new
    OBVIOUS
  <2> HIDE DEF new
  <2>2. /\ Len(log') = Len(log) + Len(new)
        /\ \A k \in 1..Len(log) : log'[k] = log[k]
        /\ \A k \in 1..Len(new) : log'[Len(log) + k] = new[k]
    <3>1. log \in Seq(Record) /\ new \in Seq(Record)
      BY <1>1
    <3>2. /\ Len(log \o new) = Len(log) + Len(new)
          /\ \A k \in 1..Len(log) : (log \o new)[k] = log[k]
          /\ \A k \in 1..Len(new) : (log \o new)[Len(log) + k] = new[k]
      BY <3>1, Appended
    <3> QED BY ONLY <2>1, <3>2
  <2>3. ASSUME NEW k \in 1..Len(log'), k \notin 1..n
        PROVE  k - n \in 1..Len(whats) /\ log'[k] = new[k - n]
    <3>1. k - n \in 1..Len(new) /\ k = Len(log) + (k - n)
      BY <1>1, <2>2, <2>3
    <3> QED BY <1>1, <2>2, <3>1
  <2> QED BY <1>1, <2>2, <2>3
<1> HIDE DEF n, new
<1>3. ASSUME NEW i \in 1..event, i # event
      PROVE  RecordsFor(i, "event")' = RecordsFor(i, "event")
  <2>1. ASSUME NEW k \in 1..Len(log'), log'[k].event = i PROVE k \in 1..n
    BY <1>2, <1>3, <2>1
  <2>2. 1..n \subseteq 1..Len(log')
    BY <1>1, <1>2
  <2> QED BY <1>2, <2>1, <2>2 DEF RecordsFor, n
<1>4. RecordsFor(event, "event")' = {n + place}
  <2>1. ASSUME NEW k \in 1..Len(log')
        PROVE  (log'[k].event = event /\ log'[k].what = "event") <=> k = n + place
    <3>1. CASE k \in 1..n
      <4>1. log'[k].event # event /\ k # n + place
        BY <1>1, <1>2, <3>1 DEF n
      <4> QED BY <4>1
    <3>2. CASE k \notin 1..n
      <4>1. k - n \in 1..Len(whats) /\ log'[k].event = event /\ log'[k].what = whats[k - n]
        BY <1>2, <3>2
      <4>2. k - n = place <=> k = n + place
        BY <1>1
      <4> QED BY <4>1, <4>2
    <3> QED BY <3>1, <3>2
  <2>2. n + place \in 1..Len(log')
    BY <1>1, <1>2
  <2> QED BY <2>1, <2>2 DEF RecordsFor
<1>5. ASSUME NEW i \in 1..event, arrived[i] \in {"observe", "body"}
      PROVE  \E k \in RecordsFor(i, "event")' : RecordsFor(i, "event")' = {k}
  <2>1. CASE i = event
    BY <1>4, <2>1
  <2>2. CASE i # event
    <3>1. i \in 1..taken /\ ~Unfinished(i)
      BY <2>2
    <3> QED BY <1>3, <1>5, <2>2, <3>1 DEF Accounted
  <2> QED BY <2>1, <2>2
<1>6. \A k \in 1..Len(log') : log'[k].event \in 1..event /\ (k \notin 1..n => log'[k].event = event)
  BY <1>1, <1>2 DEF n
<1>7. ASSUME NEW j \in 1..Len(log'), NEW k \in 1..Len(log'), j < k
      PROVE  log'[j].event <= log'[k].event
  <2>1. CASE k \in 1..n
    <3>1. j \in 1..n
      BY <1>1, <1>7, <2>1
    <3> QED BY <1>2, <1>7, <2>1, <3>1 DEF Accounted, n
  <2>2. CASE k \notin 1..n
    BY <1>6, <2>2
  <2> QED BY <2>1, <2>2
<1> QED BY <1>5, <1>6, <1>7 DEF Accounted

(* The steps that record nothing.                                            *)
LEMMA AccountedStays ==
  ASSUME CdpInv, SessionInv, Accounted, log' = log,
         taken' = taken, \A i \in 1..taken : arrived'[i] = arrived[i],
         offered' = Len(arrived'),
         at \in {"body", "cancelled"} => at' \in {"body", "cancelled"},
         at' = "body" => at = "body"
  PROVE  Accounted'
<1>1. ASSUME NEW i, NEW what PROVE RecordsFor(i, what)' = RecordsFor(i, what)
  BY DEF RecordsFor
<1>2. \A i : Unfinished(i) => Unfinished(i)'
  BY DEF Unfinished
<1> QED BY <1>1, <1>2 DEF Accounted

LEMMA ObservedAccounted ==
  ASSUME CdpInv, SessionInv, Accounted, TakeObserved, ~failing'
  PROVE  Accounted'
<1>1. taken \in Nat /\ taken' \in Nat /\ taken' > 0 /\ taken' = taken + 1
      /\ UNCHANGED <<arrived, offered>> /\ at = "waiting"
  BY DEF TakeObserved, TakeEvent, CdpInv, CdpTypeOK
<1>2. PICK whats \in {<<"event">>, <<"event", "link">>} : Records(taken + 1, whats)
  BY DEF TakeObserved
<1>3. log' = log \o RecordsOf(taken', whats) /\ at' = "waiting"
  BY <1>1, <1>2 DEF Records, Raises, Write
<1>4. /\ whats \in Seq({"event", "body", "link"}) /\ 1 \in 1..Len(whats)
      /\ \A j \in 1..Len(whats) : whats[j] = "event" <=> j = 1
  <2>1. CASE whats = <<"event">>
    BY <2>1
  <2>2. CASE whats = <<"event", "link">>
    <3>1. Len(whats) = 2 /\ whats[1] = "event" /\ whats[2] # "event"
      BY <2>2
    <3> QED BY <2>2, <3>1
  <2> QED BY <1>2, <2>1, <2>2
<1>5. sequence = Len(log) /\ \A k \in 1..Len(log) : log[k].event \in 1..taken
  BY <1>1 DEF SessionInv, LogInv, Accounted
<1>6. \A i \in 1..taken' : i # taken' => i \in 1..taken /\ ~Unfinished(i)
  BY <1>1 DEF Unfinished
<1>7. \A k \in 1..Len(log) : log[k].event \in Nat /\ log[k].event > 0 /\ log[k].event < taken'
  BY <1>1, <1>5
<1> QED BY <1>1, <1>3, <1>4, <1>5, <1>6, <1>7, AccountedRecords

LEMMA BodyAccounted ==
  ASSUME CdpInv, SessionInv, Accounted, NEW result \in Outcomes, BodyReturns(result), ~failing'
  PROVE  Accounted'
<1>1. taken \in Nat /\ taken' = taken /\ UNCHANGED <<arrived, offered>> /\ at = "body"
  BY DEF BodyReturns, Returns, Leaves, CdpInv, CdpTypeOK
<1>2. PICK whats \in {<<"body", "event">>, <<"event">>} : Records(taken, whats)
  BY DEF BodyReturns
<1>3. log' = log \o RecordsOf(taken', whats) /\ at' = "waiting"
  BY <1>1, <1>2 DEF Records, Raises, Write
<1>4. /\ whats \in Seq({"event", "body", "link"})
      /\ \E place \in 1..Len(whats) : \A j \in 1..Len(whats) : whats[j] = "event" <=> j = place
  <2>1. CASE whats = <<"event">>
    BY <2>1
  <2>2. CASE whats = <<"body", "event">>
    <3>1. 2 \in 1..Len(whats) /\ \A j \in 1..Len(whats) : whats[j] = "event" <=> j = 2
      BY <2>2
    <3> QED BY <2>2, <3>1
  <2> QED BY <1>2, <2>1, <2>2
<1>5. /\ sequence = Len(log) /\ taken > 0
      /\ \A k \in 1..Len(log) : log[k].event \in 1..taken /\ log[k].event < taken
  BY <1>1 DEF SessionInv, LogInv, Accounted
<1>6. \A i \in 1..taken' : i # taken' => i \in 1..taken /\ ~Unfinished(i)
  BY <1>1 DEF Unfinished
<1>7. \A k \in 1..Len(log) : log[k].event \in Nat /\ log[k].event > 0 /\ log[k].event < taken'
  BY <1>1, <1>5
<1> QED BY <1>1, <1>3, <1>4, <1>5, <1>6, <1>7, AccountedRecords
(* An event taken that leaves no record: foreign traffic, a tab, or a body   *)
(* whose fetching begins.                                                    *)
LEMMA TakenAccounted ==
  ASSUME CdpInv, SessionInv, Accounted, TakeForeign \/ TakeCommanding
  PROVE  Accounted'
<1>1. /\ taken \in Nat /\ taken' = taken + 1 /\ UNCHANGED <<arrived, offered, log>>
      /\ at = "waiting"
  BY DEF TakeForeign, TakeCommanding, TakeEvent, NoRecord, own, CdpInv, CdpTypeOK
<1>2. /\ at' \in {"waiting", "body", "attach"}
      /\ arrived[taken + 1] \in {"observe", "body"} => at' = "body"
  BY <1>1 DEF TakeForeign, TakeCommanding, own, Upcoming
<1>3. ASSUME NEW i, NEW what PROVE RecordsFor(i, what)' = RecordsFor(i, what)
  BY <1>1 DEF RecordsFor
<1>4. ASSUME NEW i \in 1..taken', arrived[i] \in {"observe", "body"}, ~Unfinished(i)'
      PROVE  \E k \in RecordsFor(i, "event") : RecordsFor(i, "event") = {k}
  <2>1. i # taken + 1
    BY <1>1, <1>2, <1>4 DEF Unfinished
  <2>2. i \in 1..taken /\ ~Unfinished(i)
    BY <1>1, <2>1 DEF Unfinished
  <2> QED BY <1>4, <2>2 DEF Accounted
<1>5. Len(log) \in Nat /\ \A k \in 1..Len(log) : log[k].event \in 1..taken
  BY DEF Accounted, SessionInv, LogInv
<1>6. \A k \in 1..Len(log) : log[k].event \in 1..taken' /\ log[k].event < taken'
  BY <1>1, <1>5
<1> QED BY <1>1, <1>3, <1>4, <1>6 DEF Accounted

LEMMA BrowserAccounted ==
  ASSUME CdpInv, SessionInv, Accounted, Browser PROVE Accounted'
<1>1. UNCHANGED own
  BY DEF Browser
<1>2. /\ taken' = taken /\ offered' = Len(arrived')
      /\ \A i \in 1..taken : arrived'[i] = arrived[i]
  <2>0. offered = Len(arrived) /\ taken \in 0..Len(arrived) /\ arrived \in Seq(Kind)
    BY DEF CdpInv, CdpTypeOK, Accounted
  <2>1. ASSUME NEW id \in asked, NEW what \in {"result", "error"}, Answer(id, what)
        PROVE  UNCHANGED <<taken, offered, arrived>>
    BY <2>1 DEF Answer
  <2>2. ASSUME NEW kind \in Kind, Arrive(kind)
        PROVE  /\ taken' = taken /\ offered' = Len(arrived')
               /\ \A i \in 1..taken : arrived'[i] = arrived[i]
    BY <2>0, <2>2 DEF Arrive, Offered
  <2>3. ASSUME ReceiverStops("ended") PROVE UNCHANGED <<taken, offered, arrived>>
    BY <2>3 DEF ReceiverStops, Stops
  <2> QED BY <2>0, <2>1, <2>2, <2>3 DEF Browser
<1> QED BY <1>1, <1>2, AccountedStays DEF own

(* Every other step that fails no task takes no event and ends no fetching.  *)
LEMMA IdleAccounted ==
  ASSUME CdpInv, SessionInv, Accounted, at # "failed", ~failing', Next,
         ~TakeObserved, ~(\E result \in Outcomes : BodyReturns(result)),
         ~TakeForeign, ~TakeCommanding, ~Browser
  PROVE  Accounted'
<1> DEFINE Same == /\ UNCHANGED <<log, taken, arrived, offered>>
                   /\ at \in {"body", "cancelled"} => at' \in {"body", "cancelled"}
                   /\ at' = "body" => at = "body"
<1>1. ASSUME Issue PROVE Same
  BY <1>1 DEF Issue, Command, Register, Sent, own
<1>2. ASSUME NEW result \in Outcomes, Orchestrate(result) PROVE Same
  BY <1>2 DEF Orchestrate, Returns, Leaves, ListReturns, AttachReturns, ConfigureReturns, Settles
<1>3. ASSUME NEW result \in Outcomes, CommandRaises(result) PROVE FALSE
  BY <1>3 DEF CommandRaises, Raises
<1>4. ASSUME ReceiverFails PROVE FALSE
  BY <1>4 DEF ReceiverFails
<1>5. ASSUME CancelReceiver PROVE Same
  BY <1>5 DEF CancelReceiver, ReceiverStops, Stops, own
<1>6. ASSUME CancelConsumer PROVE Same
  BY <1>6 DEF CancelConsumer, CancelCall, Leaves, cdpVars
<1>7. ASSUME TimerFires \/ AfterTimer PROVE Same
  BY <1>7 DEF TimerFires, AfterTimer, NoRecord, cdpVars
<1>8. ASSUME Prepare \/ Connect \/ ConnectFails \/ LeaveGroup \/ Disconnect \/ PrepareFails
             \/ Interrupt \/ Flush \/ Seal \/ Dies
      PROVE  Same
  <2>1. phase \in {"prepare", "connect"} => at = "none"
    BY DEF SessionInv, LogInv
  <2> QED BY <1>8, <2>1 DEF Prepare, Connect, ConnectFails, LeaveGroup, Disconnect, PrepareFails,
             Interrupt, Flush, Seal, Dies, cdpVars
<1>9. Same
  BY <1>1, <1>2, <1>3, <1>4, <1>5, <1>6, <1>7, <1>8 DEF Next, Work, Abort, MainStep
<1> QED BY <1>9, AccountedStays DEF Accounted

(* A task that failed stays failed, and the way the group ends says so.      *)
LEMMA NextFailing ==
  ASSUME CdpInv, SessionInv, LossInv, [Next]_vars
  PROVE  /\ at' = "failed" => failing'
         /\ phase' \in {"disconnect", "flush", "seal"} /\ outcome' = "none" => ~failing'
         /\ manifest'.status = "completed" => ~failing'
         /\ failing => failing'
<1>0. /\ at = "failed" => failing
      /\ phase \in {"disconnect", "flush", "seal"} /\ outcome = "none" => ~failing
      /\ manifest.status = "completed" => ~failing
      /\ phase # "over" => manifest.status = "running"
      /\ manifest \in [status: {"running", "completed", "cancelled", "failed"}, listed: BOOLEAN]
      /\ outcome \in {"none", "cancelled", "failed"}
  BY DEF LossInv, SessionInv, FileInv
<1> DEFINE InGroupStep ==
             /\ InGroup /\ phase' \in {"bootstrap", "collect"}
             /\ manifest'.status = manifest.status
             /\ \/ failing' = TRUE
                \/ failing' = failing /\ (at' = "failed" => at = "failed")
<1>1. ASSUME Issue \/ TakeForeign \/ TakeCommanding \/ TimerFires \/ AfterTimer \/ Browser
             \/ ReceiverFails \/ Abort
      PROVE  InGroupStep
  BY <1>1 DEF Issue, TakeForeign, TakeCommanding, TimerFires, AfterTimer, Browser, ReceiverFails,
              Abort, CancelReceiver, CancelConsumer, own, NoRecord, InGroup, Upcoming
<1>2. ASSUME NEW result \in Outcomes, Orchestrate(result) \/ CommandRaises(result)
      PROVE  InGroupStep
  BY <1>2 DEF Orchestrate, ListReturns, AttachReturns, ConfigureReturns, Settles, CommandRaises,
              Raises, NoRecord, InGroup
<1>3. ASSUME TakeObserved \/ \E result \in Outcomes : BodyReturns(result) PROVE InGroupStep
  <2>1. InGroup
    BY <1>3 DEF TakeObserved, BodyReturns, InGroup
  <2>2. PICK event, whats : Records(event, whats)
    BY <1>3 DEF TakeObserved, BodyReturns
  <2>3. phase' = phase /\ (failing' = TRUE \/ (failing' = failing /\ at' = "waiting"))
    BY <2>2 DEF Records, Raises
  <2>4. manifest'.status = manifest.status
    BY <1>0, <2>2 DEF Records, Write, WriteFails
  <2> QED BY <2>1, <2>3, <2>4 DEF InGroup
<1>4. CASE InGroupStep
  BY <1>0, <1>4 DEF InGroup
<1>5. CASE Prepare \/ PrepareFails \/ Connect \/ ConnectFails \/ Interrupt \/ UNCHANGED vars
  BY <1>0, <1>5 DEF Prepare, PrepareFails, Connect, ConnectFails, Interrupt, vars, own
<1>6. CASE LeaveGroup
  BY <1>0, <1>6 DEF LeaveGroup, InGroup
<1>7. CASE Disconnect
  BY <1>0, <1>7 DEF Disconnect
<1>8. CASE Flush \/ Dies
  BY <1>0, <1>8 DEF Flush, Dies
<1>9. CASE Seal
  BY <1>0, <1>9 DEF Seal, Status
<1> HIDE DEF InGroupStep
<1> QED BY <1>1, <1>2, <1>3, <1>4, <1>5, <1>6, <1>7, <1>8, <1>9 DEF Next, Work, MainStep

LEMMA NextLoss == CdpInv /\ SessionInv /\ LossInv /\ [Next]_vars => LossInv'
<1> SUFFICES ASSUME CdpInv, SessionInv, LossInv, [Next]_vars PROVE LossInv'
  OBVIOUS
<1> SUFFICES ASSUME ~failing' PROVE Accounted'
  BY NextFailing DEF LossInv
<1>1. Accounted /\ at # "failed"
  BY NextFailing DEF LossInv
<1>2. CASE UNCHANGED vars
  BY <1>1, <1>2, AccountedStays DEF vars, own, cdpVars, Accounted
<1>3. CASE Next
  BY <1>1, <1>3, ObservedAccounted, BodyAccounted, TakenAccounted, BrowserAccounted, IdleAccounted
<1> QED BY <1>2, <1>3

(* Every first-party event taken has exactly one record, in order, unless a  *)
(* task failed; and a completed session dropped nothing it was sent and      *)
(* nothing it numbered, whatever was cancelled, timed out or interrupted.    *)
THEOREM SessionsLoseNothing == Spec => []NothingIsLost
<1>1. Init => LossInv
  BY DEF Init, CdpInit, LossInv, Accounted
<1>2. SessionInv /\ LossInv => NothingIsLost
  BY DEF SessionInv, LogInv, LossInv, Accounted, NothingIsLost, TakenIsRecorded
<1>3. CdpInv /\ SessionInv /\ LossInv /\ [Next]_vars => LossInv'
  BY NextLoss
<1> QED BY <1>1, <1>2, <1>3, SessionAlways, PTL DEF Spec
=============================================================================
