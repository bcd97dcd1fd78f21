--------------------------- MODULE UploadProtocol ---------------------------
(***************************************************************************)
(* What the client promises the server about microphone uploads: on one    *)
(* connection at most one upload is in progress, a new one is started only *)
(* when the previous one was ended or abandoned (an error of the capture   *)
(* or the encoder drops it, and nobody tells the server), an abandoned one *)
(* is never touched again, and losing the connection loses them all.       *)
(* AudioSession implements this specification.                             *)
(***************************************************************************)
CONSTANT Stream          \* the identifiers an upload can have

VARIABLES online,        \* is there a connection to the server
          uploads,       \* the uploads the server has seen start and not end
          abandoned      \* those of them the client has given up

vars == <<online, uploads, abandoned>>

TypeOK ==
    /\ online \in BOOLEAN
    /\ uploads \in SUBSET Stream
    /\ abandoned \in SUBSET uploads

Init ==
    /\ online \in BOOLEAN
    /\ uploads = {}
    /\ abandoned = {}

Connect ==
    /\ ~online
    /\ online' = TRUE
    /\ UNCHANGED <<uploads, abandoned>>

Start(s) ==
    /\ online
    /\ s \notin uploads
    /\ uploads = abandoned
    /\ uploads' = uploads \cup {s}
    /\ UNCHANGED <<online, abandoned>>

End ==
    /\ online
    /\ uploads # abandoned
    /\ uploads' = abandoned
    /\ UNCHANGED <<online, abandoned>>

Abandon ==
    /\ online
    /\ uploads # abandoned
    /\ abandoned' = uploads
    /\ UNCHANGED <<online, uploads>>

LoseConnection ==
    /\ online' = FALSE
    /\ uploads' = {}
    /\ abandoned' = {}

Next ==
    \/ Connect
    \/ \E s \in Stream: Start(s)
    \/ End
    \/ Abandon
    \/ LoseConnection

Spec == Init /\ [][Next]_vars

=============================================================================
