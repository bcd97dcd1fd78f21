----------------------------- MODULE ClientLog -----------------------------
(***************************************************************************)
(* Logger beside the WebSocket client.  Every thread that logs runs the    *)
(* message handler, which takes the mutex twice: to read the session that  *)
(* labels the record, and to append the record to the buffer.  A timer     *)
(* posts the buffer to the server; a post is not repeated if it fails.     *)
(*                                                                         *)
(* The main thread opens sessions, flushes and logs, one at a time; its    *)
(* messages are a thread's with nothing of the main thread between the two *)
(* steps.                                                                  *)
(***************************************************************************)
EXTENDS WebSocketClient, Sequences

CONSTANTS
    Thread,         \* the threads that log
    MaxRecords      \* bound: messages logged in a run

VARIABLES
    loggerSession,  \* m_sessionId
    handling,       \* the records, numbered, that are labelled and not yet in the buffer
    buffer,         \* m_buffer
    posts,          \* the batches the network has not answered
    logged,         \* history: how many messages were logged
    settled         \* history: the numbers of records delivered or lost

log == <<loggerSession, handling, buffer, posts, logged, settled>>

LogInit ==
    /\ Init
    /\ loggerSession = NoSession
    /\ handling = {}
    /\ buffer = <<>>
    /\ posts = {}
    /\ logged = 0
    /\ settled = {}

-----------------------------------------------------------------------------
(* The session.                                                            *)

(* sessionOpened reaches setSessionId; nothing reports the end of a session *)
(* to the logger, which goes on with its identifier.                       *)
SetSessionId ==
    loggerSession' = IF sessionId' \notin {sessionId, NoSession} THEN sessionId'
                     ELSE loggerSession

ClientStep ==
    /\ Next
    /\ SetSessionId
    /\ UNCHANGED <<handling, buffer, posts, logged, settled>>

-----------------------------------------------------------------------------
(* messageHandler, flush and what the network makes of the posts.          *)

LabelMessage(t) ==
    /\ logged < MaxRecords
    /\ \A r \in handling: r.thread # t
    /\ logged' = logged + 1
    /\ handling' = handling \cup {[no |-> logged', thread |-> t, label |-> loggerSession]}
    /\ UNCHANGED <<vars, loggerSession, buffer, posts, settled>>

Enqueue(r) ==
    /\ handling' = handling \ {r}
    /\ buffer' = Append(buffer, r)
    /\ UNCHANGED <<vars, loggerSession, posts, logged, settled>>

FlushKeeps ==   \* mutant: the buffer is not cleared
    /\ buffer # <<>>
    /\ posts' = posts \cup {buffer}
    /\ UNCHANGED <<vars, loggerSession, handling, buffer, logged, settled>>

(* The batch is taken under the mutex; the rest of flush uses only it. *)
Flush ==
    /\ buffer # <<>>
    /\ posts' = posts \cup {buffer}
    /\ buffer' = <<>>
    /\ UNCHANGED <<vars, loggerSession, handling, logged, settled>>

(* Delivered, or lost: the logger does not look at the reply. *)
PostFinished(batch) ==
    /\ posts' = posts \ {batch}
    /\ settled' = settled \cup {batch[i].no: i \in DOMAIN batch}
    /\ UNCHANGED <<vars, loggerSession, handling, buffer, logged>>

LogNext ==
    \/ ClientStep
    \/ \E t \in Thread: LabelMessage(t)
    \/ \E r \in handling: Enqueue(r)
    \/ Flush
    \/ \E batch \in posts: PostFinished(batch)

LogSpec == LogInit /\ [][LogNext]_<<vars, log>> /\ Fairness

-----------------------------------------------------------------------------
(* Properties.                                                             *)

(* Whatever threads log and sessions open while the timer flushes, each    *)
(* message is in one place only, being handled, in the buffer or in one    *)
(* post, until it is settled; a thread's messages stay in its order; and   *)
(* what is logged in a session is labelled with the published session.     *)
Numbers(batch) == {batch[i].no: i \in DOMAIN batch}
Batches == posts \cup {buffer}
InBatches == UNION {Numbers(b): b \in Batches}
InHandling == {r.no: r \in handling}
EachOnce ==
    /\ InBatches \cup InHandling \cup settled = 1 .. logged
    /\ InHandling \cap InBatches = {}
    /\ settled \cap (InHandling \cup InBatches) = {}
    /\ \A b, c \in Batches: b # c => Numbers(b) \cap Numbers(c) = {}
    /\ buffer \notin posts
InThreadOrder ==
    \A b \in Batches: \A i, j \in DOMAIN b:
        i < j /\ b[i].thread = b[j].thread => b[i].no < b[j].no
LogHeld ==
    /\ EachOnce
    /\ InThreadOrder
    /\ sessionId # NoSession => loggerSession = sessionId

=============================================================================
