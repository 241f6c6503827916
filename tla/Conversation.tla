---------------------------- MODULE Conversation ----------------------------
(***************************************************************************)
(* One conversation of the user with an agent: the messages                *)
(* (core/chatstore.py), the engine that answers each message of the user   *)
(* as a task of the event loop (core/engine.py), the review of messages    *)
(* outside the whitelist, and a reader that pages back through the history *)
(* (core/conv.py).  A message's id is random and its time has the          *)
(* resolution of a second, so several messages share a time.  Any step of  *)
(* the engine may raise, and the write that notes a failure may raise too. *)
(*                                                                         *)
(* Every message of the user asks for the demonstration order.  Pushes to  *)
(* connected clients change nothing that is kept, and are left out.        *)
(***************************************************************************)
EXTENDS Integers, Sequences, FiniteSets

CONSTANTS MaxId,      \* the ids a message may draw are 1..MaxId
          MaxTime,
          MaxSent,    \* messages of the user
          PageSize,   \* limit
          Reviewers

ASSUME BoundsAssumption == MaxId \in Nat \ {0} /\ MaxTime \in Nat /\ MaxSent \in Nat
ASSUME PageAssumption == PageSize \in Nat \ {0}

Ids == 1..MaxId
None == 0

VARIABLES stub,       \* engine_stub_enabled, a setting of the running process
          now,
          msg,        \* the messages by id; no message has dir "none"
          work,       \* the engine's tasks
          traded,     \* the user's messages whose order is registered
          review,     \* what the reviewers are doing
          rd          \* the reader

chatVars == <<stub, now, msg, work, traded, review, rd>>

NoMessage == [dir |-> "none", st |-> "none", ts |-> 0, re |-> None, order |-> FALSE, read |-> FALSE]
Closed == [pc |-> "closed", seen |-> <<>>, there |-> {}]

ChatInit == /\ stub \in BOOLEAN /\ now = 0 /\ msg = [i \in Ids |-> NoMessage]
            /\ work = [i \in Ids |-> "none"] /\ traded = {}
            /\ review = [v \in Reviewers |-> None]
            /\ rd = Closed

Kept == {i \in Ids : msg[i].dir # "none"}
Draw(i) == i \in Ids \ Kept
Put(i, dir, st, re, order) ==
    msg' = [msg EXCEPT ![i] = [dir |-> dir, st |-> st, ts |-> now, re |-> re,
                               order |-> order, read |-> FALSE]]
SetStatus(i, st) == msg' = [msg EXCEPT ![i].st = st]

Clock == /\ now < MaxTime /\ now' = now + 1
         /\ UNCHANGED <<stub, msg, work, traded, review, rd>>

-----------------------------------------------------------------------------
(* Sending, and the engine's task for a message: process_message.          *)

\* send_message: the message is kept; its task is created after the audit row.
Send(i) == /\ Draw(i) /\ Cardinality({j \in Kept : msg[j].dir = "user"}) < MaxSent
           /\ Put(i, "user", "queued", None, FALSE)
           /\ work' = [work EXCEPT ![i] = "sent"]
           /\ UNCHANGED <<stub, now, traded, review, rd>>
Schedule(i) == /\ work[i] = "sent" /\ work' = [work EXCEPT ![i] = "queued"]
               /\ UNCHANGED <<stub, now, msg, traded, review, rd>>
\* Without the stub engine a message counts as delivered, and nobody answers it.
Pass(i) == /\ work[i] = "queued" /\ ~stub /\ SetStatus(i, "delivered")
           /\ work' = [work EXCEPT ![i] = "passed"]
           /\ UNCHANGED <<stub, now, traded, review, rd>>
Process(i) == /\ work[i] = "queued" /\ stub /\ SetStatus(i, "processing")
              /\ work' = [work EXCEPT ![i] = "processing"]
              /\ UNCHANGED <<stub, now, traded, review, rd>>
\* _maybe_demo_order: registered or refused, in a transaction of its own.
DemoOrder(i) == /\ work[i] = "processing"
                /\ \E placed \in BOOLEAN : traded' = IF placed THEN traded \cup {i} ELSE traded
                /\ work' = [work EXCEPT ![i] = "reply"]
                /\ UNCHANGED <<stub, now, msg, review, rd>>
ReplyMutAgain(i, r) ==
    /\ work[i] = "reply" /\ Draw(r)
    /\ Put(r, "agent", "delivered", i, i \in traded)
    /\ \E again \in BOOLEAN : work' = [work EXCEPT ![i] = IF again THEN "reply" ELSE "replied"]
    /\ UNCHANGED <<stub, now, traded, review, rd>>
Reply(i, r) == /\ work[i] = "reply" /\ Draw(r)
               /\ Put(r, "agent", "delivered", i, i \in traded)
               /\ work' = [work EXCEPT ![i] = "replied"]
               /\ UNCHANGED <<stub, now, traded, review, rd>>
Answered(i) == /\ work[i] = "replied" /\ SetStatus(i, "delivered")
               /\ work' = [work EXCEPT ![i] = "audit"]
               /\ UNCHANGED <<stub, now, traded, review, rd>>
\* The audit row and the pushes that follow.
Finish(i) == /\ work[i] = "audit" /\ work' = [work EXCEPT ![i] = "none"]
             /\ UNCHANGED <<stub, now, msg, traded, review, rd>>
FailsMutSilent(i) ==
    /\ work[i] \in {"processing", "reply", "replied", "audit"} \/ (work[i] = "queued" /\ stub)
    /\ work' = [work EXCEPT ![i] = "none"]
    /\ UNCHANGED <<stub, now, msg, traded, review, rd>>
\* An exception inside the try: the message has failed, whatever was done.
Fails(i) == /\ work[i] \in {"processing", "reply", "replied", "audit"} \/ (work[i] = "queued" /\ stub)
            /\ SetStatus(i, "failed")
            /\ work' = [work EXCEPT ![i] = "none"]
            /\ UNCHANGED <<stub, now, traded, review, rd>>
Waits(i) == work[i] \in {"sent", "queued", "processing", "reply", "replied"}
\* An exception outside of it: the audit of the post, the read of the agent, the
\* write of "delivered" without the stub, or the handler's own write.
Dies(i) == /\ Waits(i) /\ work' = [work EXCEPT ![i] = "lost"]
           /\ UNCHANGED <<stub, now, msg, traded, review, rd>>

-----------------------------------------------------------------------------
(* Messages of the agent's own, the review, and the mark of reading.       *)

\* deliver_agent_message
Deliver(i) == /\ Draw(i)
              /\ \E listed \in BOOLEAN :
                     Put(i, "agent", IF listed THEN "delivered" ELSE "pending_review", None, FALSE)
              /\ UNCHANGED <<stub, now, work, traded, review, rd>>

\* review_message reads the status, then writes it by id.
ReviewRead(v, i) == /\ review[v] = None /\ msg[i].st = "pending_review"
                    /\ review' = [review EXCEPT ![v] = i]
                    /\ UNCHANGED <<stub, now, msg, work, traded, rd>>
ReviewWrite(v) == /\ review[v] # None
                  /\ \E st \in {"delivered", "failed"} : SetStatus(review[v], st)
                  /\ review' = [review EXCEPT ![v] = None]
                  /\ UNCHANGED <<stub, now, work, traded, rd>>

\* mark_conversation_read
Unread(i) == msg[i].dir = "agent" /\ msg[i].st = "delivered" /\ ~msg[i].read
MarkRead == /\ \E i \in Ids : Unread(i)
            /\ msg' = [i \in Ids |-> [msg[i] EXCEPT !.read = @ \/ Unread(i)]]
            /\ UNCHANGED <<stub, now, work, traded, review, rd>>

-----------------------------------------------------------------------------
(* list_messages: the latest PageSize messages before the oldest one seen, *)
(* by time and id.                                                         *)

Before(i, j) == msg[i].ts < msg[j].ts \/ (msg[i].ts = msg[j].ts /\ i < j)
OlderMutTimeOnly(i) == rd.seen = <<>> \/ msg[i].ts < msg[Head(rd.seen)].ts
Older(i) == rd.seen = <<>> \/ Before(i, Head(rd.seen))
InOrder(S) == CHOOSE s \in [1..Cardinality(S) -> S] :
                  \A k, l \in 1..Cardinality(S) : k < l => Before(s[k], s[l])
Page == LET older == {i \in Kept : Older(i)}
        IN  InOrder({i \in older : Cardinality({j \in older : Before(i, j)}) < PageSize})
HasOlder == Cardinality({i \in Kept : Older(i)}) > PageSize

Open == /\ rd.pc # "reading" /\ rd' = [Closed EXCEPT !.pc = "reading", !.there = Kept]
        /\ UNCHANGED <<stub, now, msg, work, traded, review>>
Load == /\ rd.pc = "reading"
        /\ rd' = [rd EXCEPT !.seen = Page \o @, !.pc = IF HasOlder THEN "reading" ELSE "done"]
        /\ UNCHANGED <<stub, now, msg, work, traded, review>>

\* Tasks, requests and the reader are lost; nothing resumes the messages.
Restart == /\ stub' \in BOOLEAN
           /\ work' = [i \in Ids |-> IF Waits(i) THEN "lost" ELSE IF work[i] = "audit" THEN "none"
                                     ELSE work[i]]
           /\ review' = [v \in Reviewers |-> None]
           /\ rd' = Closed
           /\ UNCHANGED <<now, msg, traded>>

-----------------------------------------------------------------------------
Engine(i) == \/ Schedule(i) \/ Pass(i) \/ Process(i) \/ DemoOrder(i)
             \/ (\E r \in Ids : Reply(i, r))
             \/ Answered(i) \/ Finish(i) \/ Fails(i) \/ Dies(i)
ChatNext == \/ Clock \/ MarkRead \/ Open \/ Load \/ Restart
            \/ \E i \in Ids : Send(i) \/ Deliver(i) \/ Engine(i)
            \/ \E v \in Reviewers : ReviewWrite(v) \/ \E i \in Ids : ReviewRead(v, i)
\* The request comes to its end, and the event loop runs every task.
ChatSpec == ChatInit /\ [][ChatNext]_chatVars /\ WF_chatVars(\E i \in Ids : Engine(i))

-----------------------------------------------------------------------------
ChatTypeOK ==
    /\ stub \in BOOLEAN /\ now \in 0..MaxTime
    /\ msg \in [Ids -> [dir : {"none", "user", "agent"}, ts : 0..MaxTime, re : Ids \cup {None},
                        st : {"none", "queued", "processing", "delivered", "pending_review",
                              "failed"},
                        order : BOOLEAN, read : BOOLEAN]]
    /\ work \in [Ids -> {"none", "sent", "queued", "processing", "reply", "replied", "audit",
                          "passed", "lost"}]
    /\ traded \subseteq Kept
    /\ review \in [Reviewers -> Ids \cup {None}]
    /\ rd.pc \in {"closed", "reading", "done"} /\ rd.seen \in Seq(Ids) /\ rd.there \subseteq Ids

\* The receipt chain tells the truth: a message of the user has at most one
\* reply; one that is delivered has one, unless it was passed on without the
\* stub engine, and then it has none; the reply tells the order that was
\* registered; and no task ends in peace while its message still waits: one that
\* does has its request or its task under way, or a restart or an exception that
\* nothing catches took them (send_message, conv.py:336-350; process_message,
\* engine.py:104-150).
Replies(i) == {r \in Ids : msg[r].re = i}
ReceiptsAreTrue == \A i \in Ids : msg[i].dir = "user" =>
    /\ Cardinality(Replies(i)) <= 1
    /\ msg[i].st = "delivered" => (Replies(i) = {} <=> work[i] = "passed")
    /\ \A r \in Replies(i) : msg[r].order <=> i \in traded
    /\ msg[i].st \in {"queued", "processing"} => work[i] # "none"

\* Paging misses nothing and repeats nothing, whatever arrives meanwhile and
\* however many messages share a second: a reader that has come to the end has
\* seen each message that was there when it began, once, in the order of the
\* list (list_messages, chatstore.py:195-219, "no message of the same second is
\* missed or repeated").
PagingIsComplete ==
    /\ \A i, j \in DOMAIN rd.seen : i < j => Before(rd.seen[i], rd.seen[j])
    /\ rd.pc = "done" => rd.there \subseteq {rd.seen[i] : i \in DOMAIN rd.seen}

\* The engine comes through: of the messages of the user, at most MaxSent, none
\* waits for ever; each is delivered or reported failed, unless the program stops
\* or an exception escapes: nothing resumes it then
\* (send_message, conv.py; schedule and process_message, engine.py).
AnsweredOrFailed == []<>(\A i \in Ids : msg[i].st \in {"queued", "processing"} => work[i] = "lost")

\* "A failure is noted as failed" (engine.py:105): an exception leaves no
\* message of the user waiting.
FailuresAreNoted == [][\A i \in Ids : ~Dies(i)]_chatVars

\* "The id increases, the second key of the order" (chatstore.py:206): a reply
\* is listed after the message it answers.
RepliesFollow == \A i \in Ids : \A r \in Replies(i) : Before(i, r)
=============================================================================
