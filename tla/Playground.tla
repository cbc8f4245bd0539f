----------------------------- MODULE Playground -----------------------------
(***************************************************************************)
(* The chat page of the web client, features/playground: the list of       *)
(* messages, the event streams that fill in replies, the buttons, and the  *)
(* copy of the list in local storage.                                      *)
(*                                                                         *)
(* A button handler sees the list and the generating flag as React last    *)
(* rendered them; a stream's handler updates the current list and asks for *)
(* another rendering, which comes later.  A message is known by the        *)
(* request it was created with; its text is abstracted to the streams      *)
(* whose chunks are in it, and None where no stream wrote it.              *)
(***************************************************************************)
EXTENDS Integers, Sequences, SequencesExt

CONSTANT MaxRequests    \* bound: how many requests are made

ASSUME RequestsAssumption == MaxRequests \in Nat

Requests == 1..MaxRequests

None == 0

VARIABLES
    messages,   \* the list of messages
    view,       \* list and generating flag as last rendered
    scheduled,  \* a rendering has been asked for
    sources,    \* request -> its event stream: none, open or closed
    current,    \* sseSourceRef: the request whose stream is current, or None
    complete,   \* isStreamCompleteRef, one flag for every stream
    editing,    \* the key of the message being edited, or None
    saved,      \* the list in local storage
    silent,     \* (history) a stream ended with neither [DONE] nor an error
    raced       \* (history) a request was made while another was current, or
                \* an edit was saved over a list that had already moved on

chatVars == <<messages, view, scheduled, sources, current, complete, editing,
          saved, silent, raced>>

Waiting == {"loading", "streaming"}

Message ==
    [from : {"user"}, of : Requests, status : {"none"}, text : SUBSET {None}]
        \cup
    [from : {"assistant"}, of : Requests,
     status : Waiting \cup {"complete", "error"},
     text : SUBSET (Requests \cup {None})]

Key(m) == <<m.from, m.of>>

createUserMessage(r) ==
    [from |-> "user", of |-> r, status |-> "none", text |-> {None}]

createLoadingAssistantMessage(r) ==
    [from |-> "assistant", of |-> r, status |-> "loading", text |-> {}]

-----------------------------------------------------------------------------
(* Updates of the list *)

EndsWithReply(list) == list # <<>> /\ Last(list).from = "assistant"

\* The last message is replaced if it is the assistant's; otherwise nothing
\* changes.
updateLastAssistantMessage(list, new) ==
    IF EndsWithReply(list) THEN [list EXCEPT ![Len(list)] = new] ELSE list

\* Mutant of Finalized: a reply that is still loading is left alone.
FinalizedStreaming(m) ==
    IF m.status = "streaming" THEN [m EXCEPT !.status = "complete"] ELSE m

Finalized(m) ==
    IF m.status \in Waiting THEN [m EXCEPT !.status = "complete"] ELSE m

WithChunk(m, r) ==
    IF m.status = "error" THEN m
    ELSE [m EXCEPT !.status = "streaming", !.text = @ \cup {r}]

WithError(m) == [m EXCEPT !.status = "error", !.text = {None}]

\* Mutant of sanitizeMessagesOnLoad: a streaming message is taken for a stable one.
sanitizeLoading(list) ==
    LET stuck == {i \in DOMAIN list : list[i].status = "loading"}
        i == CHOOSE i \in stuck : \A j \in stuck : j <= i
    IN  IF stuck = {} THEN list ELSE [list EXCEPT ![i] = WithError(@)]

\* Only the last of the waiting messages is made stable.
sanitizeMessagesOnLoad(list) ==
    LET stuck == {i \in DOMAIN list : list[i].status \in Waiting}
        i == CHOOSE i \in stuck : \A j \in stuck : j <= i
    IN  IF stuck = {} THEN list
        ELSE IF list[i].text # {} THEN [list EXCEPT ![i] = Finalized(@)]
        ELSE [list EXCEPT ![i] = WithError(@)]

\* updateMessages stores each new list as it sets it; storing may fail, which
\* is only logged.
Store(list) == saved' \in {list, saved}

\* A handler of a button: its updates are rendered before the next event.
FromButton(list, now) ==
    /\ messages' = list
    /\ current' = now
    /\ Store(list)
    /\ scheduled' = FALSE
    /\ view' = [messages |-> list, generating |-> now # None]

\* A handler of a stream: rendering comes later, if the list was replaced.
FromStream(new) ==
    /\ messages' = updateLastAssistantMessage(messages, new)
    /\ Store(messages')
    /\ scheduled' = (scheduled \/ EndsWithReply(messages))
    /\ UNCHANGED <<view, editing>>

Render ==
    /\ scheduled
    /\ scheduled' = FALSE
    /\ view' = [messages |-> messages, generating |-> current # None]
    /\ UNCHANGED <<messages, sources, current, complete, editing, saved, silent, raced>>

-----------------------------------------------------------------------------
(* Requests *)

Unused == {r \in Requests : sources[r] = "none"}

Open == {r \in Requests : sources[r] = "open"}

\* Mutant of sendStreamRequest: the flag of the stream before is kept.
sendKeepingFlag(r, list) ==
    /\ raced' = (raced \/ current # None \/ view.messages # messages)
    /\ \/ /\ sources' = [sources EXCEPT ![r] = "open"]
          /\ FromButton(list, r)
       \/ /\ sources' = [sources EXCEPT ![r] = "closed"]
          /\ FromButton(updateLastAssistantMessage(list, WithError(Last(list))), None)
    /\ UNCHANGED <<complete, silent>>

\* sendStreamRequest: the new stream becomes the current one; the one before
\* it, if any, is not closed.  If the stream cannot be started the reply gets
\* an error and nothing is current.
sendStreamRequest(r, list) ==
    /\ complete' = FALSE
    /\ raced' = (raced \/ current # None \/ view.messages # messages)
    /\ \/ /\ sources' = [sources EXCEPT ![r] = "open"]
          /\ FromButton(list, r)
       \/ /\ sources' = [sources EXCEPT ![r] = "closed"]
          /\ FromButton(updateLastAssistantMessage(list, WithError(Last(list))), None)
    /\ UNCHANGED silent

handleSendMessage ==
    \E r \in Unused :
        /\ \A q \in Unused : r <= q
        /\ sendStreamRequest(r, view.messages
                \o <<createUserMessage(r), createLoadingAssistantMessage(r)>>)
        /\ UNCHANGED editing

\* The text field is disabled while a reply is generated.
handleSubmit == ~view.generating /\ handleSendMessage

\* A suggestion submits at any time.
handleSuggestionClick == handleSendMessage

handleRegenerateMessage ==
    /\ ~view.generating
    /\ \E r \in Unused, i \in DOMAIN view.messages :
        /\ \A q \in Unused : r <= q
        /\ view.messages[i].from = "assistant"
        /\ view.messages[i].status \notin Waiting
        /\ sendStreamRequest(r, Append(SubSeq(view.messages, 1, i - 1),
                                       createLoadingAssistantMessage(r)))
        /\ UNCHANGED editing

handleEditMessage ==
    /\ ~view.generating
    /\ \E i \in DOMAIN view.messages :
        /\ view.messages[i].text # {}
        /\ editing' = Key(view.messages[i])
    /\ UNCHANGED <<messages, view, scheduled, sources, current, complete,
                   saved, silent, raced>>

handleEditOpenChange ==
    /\ editing # <<>>
    /\ editing' = <<>>
    /\ UNCHANGED <<messages, view, scheduled, sources, current, complete,
                   saved, silent, raced>>

Edited(list) ==
    [i \in DOMAIN list |->
        IF Key(list[i]) = editing THEN [list[i] EXCEPT !.text = {None}] ELSE list[i]]

\* The buttons of the editor are not guarded by the generating flag.
applyEdit ==
    \E i \in DOMAIN view.messages :
        /\ Key(view.messages[i]) = editing
        /\ editing' = <<>>
        /\ \/ /\ raced' = (raced \/ view.messages # messages)
              /\ FromButton(Edited(view.messages), current)
              /\ UNCHANGED <<sources, complete, silent>>
           \/ /\ view.messages[i].from = "user"
              /\ \E r \in Unused :
                    /\ \A q \in Unused : r <= q
                    /\ sendStreamRequest(r, Append(SubSeq(Edited(view.messages), 1, i),
                                                   createLoadingAssistantMessage(r)))

handleDeleteMessage ==
    /\ ~view.generating
    /\ \E i \in DOMAIN view.messages : FromButton(RemoveAt(view.messages, i), current)
    /\ raced' = (raced \/ view.messages # messages)
    /\ UNCHANGED <<sources, complete, editing, silent>>

\* Mutant of stopGeneration: the stream is forgotten but not closed.
stopWithoutClosing ==
    /\ view.generating
    /\ FromButton(updateLastAssistantMessage(messages, Finalized(Last(messages))), None)
    /\ UNCHANGED <<sources, complete, editing, silent, raced>>

\* The button is shown while a reply is generated.  It closes the current
\* stream, if there is one, and finalizes the last reply.
stopGeneration ==
    /\ view.generating
    /\ sources' = [r \in Requests |-> IF r = current THEN "closed" ELSE sources[r]]
    /\ FromButton(updateLastAssistantMessage(messages, Finalized(Last(messages))), None)
    /\ UNCHANGED <<complete, editing, silent, raced>>

-----------------------------------------------------------------------------
(* Events of streams.  Whichever stream they come from, they act on the last *)
(* message and on what is current.                                           *)

handleStreamUpdate(r) ==
    /\ sources[r] = "open"
    /\ FromStream(WithChunk(Last(messages), r))
    /\ UNCHANGED <<sources, current, complete, silent, raced>>

closeSource(r) ==
    /\ sources' = [sources EXCEPT ![r] = "closed"]
    /\ current' = None

handleStreamComplete(r) ==
    /\ sources[r] = "open"
    /\ complete' = TRUE
    /\ closeSource(r)
    /\ FromStream(Finalized(Last(messages)))
    /\ UNCHANGED <<silent, raced>>

\* An error, an answer that is not 200, or a chunk that cannot be parsed.  It
\* is ignored once some stream has completed; the stream ends all the same.
handleStreamError(r) ==
    /\ sources[r] = "open"
    /\ IF complete
       THEN /\ sources' = [sources EXCEPT ![r] = "closed"]
            /\ UNCHANGED <<messages, view, scheduled, current, editing, saved>>
       ELSE closeSource(r) /\ FromStream(WithError(Last(messages)))
    /\ UNCHANGED <<complete, silent, raced>>

\* An answer of status 200 that ends without [DONE]: no handler runs.
EndsSilently(r) ==
    /\ sources[r] = "open"
    /\ sources' = [sources EXCEPT ![r] = "closed"]
    /\ silent' = TRUE
    /\ UNCHANGED <<messages, view, scheduled, current, complete, editing, saved, raced>>

\* The page is loaded again: its streams and its state are gone, and the list
\* is what local storage holds, made stable and stored again.
loadMessages ==
    /\ LET list == sanitizeMessagesOnLoad(saved)
       IN  /\ messages' = list
           /\ Store(list)
           /\ view' = [messages |-> list, generating |-> FALSE]
    /\ scheduled' = FALSE
    /\ sources' = [r \in Requests |-> IF sources[r] = "open" THEN "closed" ELSE sources[r]]
    /\ current' = None
    /\ complete' = FALSE
    /\ editing' = <<>>
    /\ UNCHANGED <<silent, raced>>

-----------------------------------------------------------------------------

ChatInit ==
    /\ messages = <<>>
    /\ view = [messages |-> <<>>, generating |-> FALSE]
    /\ scheduled = FALSE
    /\ sources = [r \in Requests |-> "none"]
    /\ current = None
    /\ complete = FALSE
    /\ editing = <<>>
    /\ saved = <<>>
    /\ silent = FALSE
    /\ raced = FALSE

Ends(r) == handleStreamComplete(r) \/ handleStreamError(r) \/ EndsSilently(r)

ChatNext ==
    \/ Render
    \/ handleSubmit
    \/ handleSuggestionClick
    \/ handleRegenerateMessage
    \/ handleEditMessage
    \/ handleEditOpenChange
    \/ applyEdit
    \/ handleDeleteMessage
    \/ stopGeneration
    \/ loadMessages
    \/ \E r \in Requests : handleStreamUpdate(r) \/ Ends(r)

\* React renders what it was asked to render, and a stream does not stay open
\* for ever.  Nothing is asked of the user.
ChatSpec ==
    /\ ChatInit /\ [][ChatNext]_chatVars
    /\ WF_chatVars(Render)
    /\ \A r \in Requests : WF_chatVars(Ends(r))

-----------------------------------------------------------------------------

\* Messages, rendered list and stored list are well formed, and a status is only
\* ever given to a reply: whatever is last when a stream speaks, the user's own
\* messages are never touched.
ChatTypeOK ==
    /\ messages \in Seq(Message)
    /\ view.messages \in Seq(Message)
    /\ view.generating \in BOOLEAN
    /\ saved \in Seq(Message)
    /\ sources \in [Requests -> {"none", "open", "closed"}]
    /\ current \in Requests \cup {None}
    /\ {scheduled, complete, silent, raced} \subseteq BOOLEAN

\* A reply holds chunks of the stream it was requested with and of no other,
\* although every stream appends to whatever message is last.
OwnReply ==
    ~raced =>
        \A i \in DOMAIN messages :
            /\ messages[i].from = "assistant"
            /\ messages[i].text \cap Requests # {}
            => messages[i].text \cap Requests = {messages[i].of}

\* A reply that still waits is the last message and its stream is the current
\* one, so that the stop button ends it and its own events settle it: no reply
\* is left loading with nothing to bring it to an end.
WaitingCanBeStopped ==
    ~raced =>
        \A i \in DOMAIN messages :
            messages[i].status \in Waiting =>
                i = Len(messages) /\ current = messages[i].of

\* At most one stream is open, and only the current one.
OneStream == ~raced => Open \subseteq {current}

\* Well-formed lists; and while no request was started over another one, one
\* stream at a time, which writes to its own reply only.
ChatInv == ChatTypeOK /\ OneStream /\ OwnReply

\* Once streams end properly and the user races none of them, every reply
\* settles without the user's help.
RepliesSettle ==
    []<>(silent \/ raced \/ \A i \in DOMAIN messages : messages[i].status \notin Waiting)

\* After a reload no message is left loading or streaming, as the comment on
\* sanitizeMessagesOnLoad says, if no request was made while another was open:
\* two replies may wait otherwise, and only the last is made stable.
StableAfterLoadUnraced ==
    [][loadMessages /\ ~raced
        => \A i \in DOMAIN messages' : messages'[i].status \notin Waiting]_chatVars
=============================================================================
