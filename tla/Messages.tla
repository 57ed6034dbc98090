------------------------------ MODULE Messages ------------------------------
(***************************************************************************)
(* Messages between the parties of an order, behind their rate limiters:   *)
(* handler/message_handler.go over service/message_service.go and          *)
(* store/message_store.go, on the route of router.go:101-106.              *)
(*                                                                         *)
(* A sender is a client with one draft.  He posts it, and again after an   *)
(* answer that tells him nothing was promised (an error, 429).  The route  *)
(* asks the limiter of the user, then that of the IP address, and a        *)
(* request the second refuses has paid the first.  The message and its     *)
(* attachment are two INSERTs without a transaction.                       *)
(***************************************************************************)
EXTENDS RateLimits, FiniteSets

CONSTANTS
    Drafts,      \* what senders may have to say: [kind, party]
    UserOf,      \* UserOf[c]: the key "message:<user>"
    AddressOf,   \* AddressOf[c]: the key "message_ip:<address>"
    MessageId,   \* ids gen_random_uuid() may return
    MaxTries,    \* bound on the posts of one draft
    NoMessage, NoSender

\* A client has one draft and at most one request, by which it is known.
Sender == Request

\* A draft is text, text with an attachment, or holds what the scans refuse
\* (personal data in body or attachment, a type that is not allowed); its
\* sender is a party of the order, its buyer or seller, or a stranger.
Kinds == {"text", "file", "refused"}

VARIABLES
    draft,        \* the draft of a sender
    pc,           \* where the request of a sender is
    answer,       \* the last answer a sender got
    tries,        \* posts of the draft
    current,      \* msg.ID of the request
    messages,     \* messages: the sender of each row, or NoSender
    attachments,  \* message_attachments: ids of the messages that have one
    errors        \* history: answers "error" a sender got

handlerVars == <<draft, pc, answer, tries, current, messages, attachments, errors>>
vars == <<limitVars, handlerVars>>

ASSUME MessagesAssumption ==
    /\ RateLimitsAssumption
    /\ Drafts \subseteq [kind : Kinds, party : BOOLEAN]
    /\ UserOf \in [Sender -> Bucket]
    /\ AddressOf \in [Sender -> Bucket]
    /\ MaxTries \in Nat
    /\ NoMessage \notin MessageId
    /\ NoSender \notin Sender

Rows(c) == {i \in MessageId : messages[i] = c}
Complete(i) == draft[messages[i]].kind = "file" => i \in attachments

MessagesInit ==
    /\ Init
    /\ draft \in [Sender -> Drafts]
    /\ pc = [c \in Sender |-> "idle"]
    /\ answer = [c \in Sender |-> "none"]
    /\ tries = [c \in Sender |-> 0]
    /\ current = [c \in Sender |-> NoMessage]
    /\ messages = [i \in MessageId |-> NoSender]
    /\ attachments = {}
    /\ errors = [c \in Sender |-> 0]

-----------------------------------------------------------------------------
Goto(c, label) == pc' = [pc EXCEPT ![c] = label]

Reply(c, kind) ==
    /\ Goto(c, "idle")
    /\ answer' = [answer EXCEPT ![c] = kind]
    /\ current' = [current EXCEPT ![c] = NoMessage]
    /\ errors' = IF kind = "error" THEN [errors EXCEPT ![c] = @ + 1] ELSE errors

\* The client posts its draft, for the first time or after a failure.
Post(c) ==
    /\ pc[c] = "idle"
    /\ answer[c] \in {"none", "limited", "error"}
    /\ tries[c] < MaxTries
    /\ tries' = [tries EXCEPT ![c] = @ + 1]
    /\ Goto(c, "user")
    /\ UNCHANGED <<limitVars, draft, answer, current, messages, attachments, errors>>

\* messageRL, then messageIPRL.
KeyOf(c) == IF pc[c] = "user" THEN UserOf[c] ELSE AddressOf[c]
AfterLimiter(c) == IF pc[c] = "user" THEN "address" ELSE "scan"

FindLimiter(c) ==
    /\ pc[c] \in {"user", "address"}
    /\ GetLimiter(c, KeyOf(c))
    /\ UNCHANGED handlerVars

AskLimiter(c) ==
    \/ /\ Allow(c)
       /\ Goto(c, AfterLimiter(c))
       /\ UNCHANGED <<draft, answer, tries, current, messages, attachments, errors>>
    \/ /\ Refuse(c)
       /\ Reply(c, "limited")
       /\ UNCHANGED <<draft, tries, messages, attachments>>

\* DetectPII on the body; size, type and PII of the attachment.
Scan(c) ==
    /\ pc[c] = "scan"
    /\ IF draft[c].kind = "refused"
         THEN Reply(c, "refused")
         ELSE Goto(c, "order") /\ UNCHANGED <<answer, current, errors>>
    /\ UNCHANGED <<limitVars, draft, tries, messages, attachments>>

\* GetByID of the order: the sender must be its buyer or its seller.
ReadOrder(c) ==
    /\ pc[c] = "order"
    /\ IF draft[c].party
         THEN Goto(c, "message") /\ UNCHANGED <<answer, current, errors>>
         ELSE Reply(c, "forbidden")
    /\ UNCHANGED <<limitVars, draft, tries, messages, attachments>>

\* messageStore.Create.
InsertMessage(c) ==
    /\ pc[c] = "message"
    /\ \E i \in MessageId :
         /\ messages[i] = NoSender
         /\ messages' = [messages EXCEPT ![i] = c]
         /\ IF draft[c].kind = "file"
              THEN /\ current' = [current EXCEPT ![c] = i]
                   /\ Goto(c, "attachment")
                   /\ UNCHANGED <<answer, errors>>
              ELSE Reply(c, "sent")
    /\ UNCHANGED <<limitVars, draft, tries, attachments>>

\* Mutant: a failed attachment is passed over like a failed notification.
InsertAttachmentBestEffort(c) ==
    /\ pc[c] = "attachment"
    /\ attachments' \in {attachments, attachments \cup {current[c]}}
    /\ Reply(c, "sent")
    /\ UNCHANGED <<limitVars, draft, tries, messages>>

\* messageStore.CreateAttachment, for the row just inserted.
InsertAttachment(c) ==
    /\ pc[c] = "attachment"
    /\ attachments' = attachments \cup {current[c]}
    /\ Reply(c, "sent")
    /\ UNCHANGED <<limitVars, draft, tries, messages>>

\* A statement fails, and may have taken effect although its answer is lost;
\* what earlier statements stored stays.
Fails(c) ==
    /\ pc[c] \in {"order", "message", "attachment"}
    /\ Reply(c, "error")
    /\ \/ UNCHANGED <<messages, attachments>>
       \/ /\ pc[c] = "message"
          /\ \E i \in MessageId :
               messages[i] = NoSender /\ messages' = [messages EXCEPT ![i] = c]
          /\ UNCHANGED attachments
       \/ /\ pc[c] = "attachment"
          /\ attachments' = attachments \cup {current[c]}
          /\ UNCHANGED messages
    /\ UNCHANGED <<limitVars, draft, tries>>

\* The limiters' own steps.
Time == (Cleanup \/ Elapse \/ Observe) /\ UNCHANGED handlerVars

Serve(c) ==
    \/ FindLimiter(c)
    \/ AskLimiter(c)
    \/ Scan(c)
    \/ ReadOrder(c)
    \/ InsertMessage(c)
    \/ InsertAttachment(c)
    \/ Fails(c)

MessagesNext == Time \/ \E c \in Sender : Post(c) \/ Serve(c)

MessagesSpec == MessagesInit /\ [][MessagesNext]_vars

-----------------------------------------------------------------------------
MessagesTypeOK ==
    /\ TypeOK
    /\ draft \in [Sender -> Drafts]
    /\ pc \in [Sender -> {"idle", "user", "address", "scan", "order", "message", "attachment"}]
    /\ answer \in [Sender -> {"none", "limited", "refused", "forbidden", "error", "sent"}]
    /\ tries \in [Sender -> 0..MaxTries]
    /\ current \in [Sender -> MessageId \cup {NoMessage}]
    /\ messages \in [MessageId -> Sender \cup {NoSender}]
    /\ attachments \subseteq MessageId
    /\ errors \in [Sender -> 0..MaxTries]
    /\ \A c \in Sender : got[c] # NoBucket => pc[c] \in {"user", "address"} /\ got[c] = KeyOf(c)

\* Every row of a draft is accounted for: by the one "sent" its sender was
\* answered, by his request under way, or by an "error" he was told, so a
\* second copy and a message without its attachment never come with a clean
\* record; a refused draft or a stranger's leaves nothing (Send 78-125).
EveryRowIsAccountedFor ==
    \A c \in Sender :
        LET sent == IF answer[c] = "sent" THEN 1 ELSE 0
            open == IF current[c] # NoMessage THEN 1 ELSE 0
        IN  /\ Cardinality(Rows(c)) <= sent + open + errors[c]
            /\ Cardinality({i \in Rows(c) : ~Complete(i)}) <= open + errors[c]
            /\ sent = 1 => \E i \in Rows(c) : Complete(i)
            /\ Rows(c) # {} => draft[c].kind # "refused" /\ draft[c].party
=============================================================================
