----------------------------- MODULE ClientProofs -----------------------------
(***************************************************************************)
(* The web client and its desktop shell, for every number of requests,     *)
(* tabs, users, options, windows and attempts.                             *)
(*                                                                         *)
(* Each of the four components has its inductive invariant first, then the *)
(* lemmas on its operators, then one lemma per kind of step, then its      *)
(* theorems: the chat page (Chat...), the forms of the system settings     *)
(* (Form...), the session (Session...) and the desktop shell (Shell...).   *)
(***************************************************************************)
EXTENDS DesktopShell, Playground, SettingsForm, ClientSession, SequenceTheorems,
        WellFoundedInduction, TLAPS

-----------------------------------------------------------------------------
(* The chat page                                                           *)

\* The message waits for nothing.
AtRest(m) == m.status \notin Waiting

\* A reply holds chunks of its own stream only.
OwnText(m) == m.from = "assistant" => m.text \cap Requests \subseteq {m.of}

\* Every reply of the list does, and no message but the last waits.
OwnTexts(list) == \A i \in DOMAIN list : OwnText(list[i])

LastWaits(list) == \A i \in DOMAIN list : ~AtRest(list[i]) => i = Len(list)

\* The list ends with the reply of the current stream, and only that one waits.
Followed(list, now) ==
    /\ now # None => EndsWithReply(list) /\ Last(list).of = now
    /\ \A i \in DOMAIN list : ~AtRest(list[i]) => i = Len(list) /\ list[i].of = now

\* The buttons that need a quiet page are shown on a page without a stream.
ButtonInv == ~view.generating => current = None

\* Unless requests raced: one stream at most, the current one; the list is its; and
\* what local storage holds is a list of an earlier moment, so that only its last
\* message may wait, for a stream that need not exist any more.
ListInv ==
    /\ OneStream
    /\ ~raced => Followed(messages, current) /\ OwnTexts(messages)
    /\ ~raced => LastWaits(saved) /\ OwnTexts(saved)

\* All of it is inductive together.  WaitingCanBeStopped alone is not: a chunk may
\* bring back a reply to waiting, and only Followed says whose it is.
ChatIInv == ChatTypeOK /\ ButtonInv /\ ListInv

\* A message of the assistant.
Reply == {m \in Message : m.from = "assistant"}

\* Every reply is a record of the second kind.
LEMMA ReplyRecord ==
    Reply = [from : {"assistant"}, of : Requests,
             status : Waiting \cup {"complete", "error"},
             text : SUBSET (Requests \cup {None})]
BY DEF Reply, Message

\* Only replies wait.
LEMMA OnlyRepliesWait ==
    ASSUME NEW m \in Message, ~AtRest(m)
    PROVE  m \in Reply
BY DEF Message, Reply, AtRest, Waiting

\* A finalized reply is at rest and is otherwise what it was.
LEMMA FinalizedReply ==
    ASSUME NEW m \in Reply
    PROVE  /\ Finalized(m) \in Reply /\ AtRest(Finalized(m))
           /\ Finalized(m).of = m.of
           /\ OwnText(m) => OwnText(Finalized(m))
<1>1. CASE m.status \in Waiting
  <2>1. Finalized(m) = [m EXCEPT !.status = "complete"]
    BY <1>1 DEF Finalized
  <2> QED
    BY <2>1, ReplyRecord DEF AtRest, Waiting, OwnText
<1>2. CASE m.status \notin Waiting
  BY <1>2 DEF Finalized, AtRest
<1> QED
  BY <1>1, <1>2

\* A chunk written to the reply of its own stream keeps it.
LEMMA ChunkReply ==
    ASSUME NEW m \in Reply, NEW r \in Requests
    PROVE  /\ WithChunk(m, r) \in Reply /\ WithChunk(m, r).of = m.of
           /\ OwnText(m) /\ m.of = r => OwnText(WithChunk(m, r))
<1>1. CASE m.status # "error"
  <2>1. m.text \cup {r} \in SUBSET (Requests \cup {None}) /\ "streaming" \in Waiting
    BY ReplyRecord DEF Waiting
  <2>2. WithChunk(m, r) = [m EXCEPT !.status = "streaming", !.text = m.text \cup {r}]
    BY <1>1 DEF WithChunk
  <2>3. WithChunk(m, r) \in Reply /\ WithChunk(m, r).of = m.of
        /\ WithChunk(m, r).text = m.text \cup {r} /\ WithChunk(m, r).from = "assistant"
    BY <2>1, <2>2, ReplyRecord
  <2>4. m.from = "assistant"
    BY DEF Reply
  <2> QED
    BY <2>3, <2>4 DEF OwnText
<1>2. CASE m.status = "error"
  BY <1>2 DEF WithChunk
<1> QED
  BY <1>1, <1>2

\* An error ends the reply.
LEMMA ErrorReply ==
    ASSUME NEW m \in Reply
    PROVE  /\ WithError(m) \in Reply /\ AtRest(WithError(m)) /\ OwnText(WithError(m))
           /\ WithError(m).of = m.of
<1>1. WithError(m) = [m EXCEPT !.status = "error", !.text = {None}]
  BY DEF WithError
<1>2. None \notin Requests
  BY RequestsAssumption DEF None, Requests
<1>3. {None} \cap Requests = {}
  BY <1>2
<1>4. {None} \in SUBSET (Requests \cup {None})
  OBVIOUS
<1>5. WithError(m) \in Reply /\ WithError(m).status = "error"
      /\ WithError(m).text = {None} /\ WithError(m).of = m.of
  BY <1>1, <1>4, ReplyRecord
<1> QED
  BY <1>3, <1>5 DEF AtRest, Waiting, OwnText

\* The last message, where there is a reply.
LEMMA LastReply ==
    ASSUME NEW list \in Seq(Message), EndsWithReply(list)
    PROVE  /\ Len(list) \in 1..Len(list) /\ Last(list) = list[Len(list)]
           /\ Last(list) \in Reply
<1>1. Len(list) \in Nat \ {0}
  BY EmptySeq DEF EndsWithReply
<1>2. list[Len(list)] \in Message
  BY <1>1, ElementOfSeq
<1>3. Last(list) = list[Len(list)]
  BY DEF Last
<1> QED
  BY <1>1, <1>2, <1>3 DEF EndsWithReply, Reply

\* What updateLastAssistantMessage does: it changes the last reply, or nothing.
LEMMA Updated ==
    ASSUME NEW list \in Seq(Message), NEW new,
           EndsWithReply(list) => new \in Reply
    PROVE  /\ updateLastAssistantMessage(list, new) \in Seq(Message)
           /\ Len(updateLastAssistantMessage(list, new)) = Len(list)
           /\ \A i \in 1..Len(list) : updateLastAssistantMessage(list, new)[i] =
                IF EndsWithReply(list) /\ i = Len(list) THEN new ELSE list[i]
           /\ EndsWithReply(updateLastAssistantMessage(list, new)) <=> EndsWithReply(list)
           /\ EndsWithReply(list) => Last(updateLastAssistantMessage(list, new)) = new
<1>1. CASE EndsWithReply(list)
  <2>1. new \in Message /\ new.from = "assistant" /\ Len(list) \in 1..Len(list)
    BY <1>1, LastReply DEF Reply
  <2> DEFINE u == [list EXCEPT ![Len(list)] = new]
  <2>2. u \in Seq(Message) /\ Len(u) = Len(list)
        /\ \A i \in 1..Len(list) : u[i] = IF i = Len(list) THEN new ELSE list[i]
    BY <2>1, ExceptSeq
  <2>3. updateLastAssistantMessage(list, new) = u
    BY <1>1 DEF updateLastAssistantMessage
  <2> HIDE DEF u
  <2>4. u[Len(list)] = new /\ u # <<>>
    BY <2>1, <2>2, EmptySeq
  <2>5. Last(u) = new
    BY <2>2, <2>4 DEF Last
  <2>6. EndsWithReply(u)
    BY <2>1, <2>4, <2>5 DEF EndsWithReply
  <2> QED
    BY <1>1, <2>2, <2>3, <2>5, <2>6
<1>2. CASE ~EndsWithReply(list)
  BY <1>2 DEF updateLastAssistantMessage
<1> QED
  BY <1>1, <1>2

\* A nonempty set of positions has a last one.
LEMMA LastPosition ==
    ASSUME NEW n \in Nat, NEW T, T \subseteq 1..n, T # {}
    PROVE  \E i \in T : \A j \in T : j <= i
<1> DEFINE D == {n - i : i \in T}
<1> DEFINE R == OpToRel(<, Nat)
<1>1. D \subseteq Nat /\ D # {}
  <2>1. \A i \in T : i \in 1..n
    OBVIOUS
  <2>2. \A i \in 1..n : n - i \in Nat
    OBVIOUS
  <2> QED
    BY <2>1, <2>2
<1>2. IsWellFoundedOn(R, Nat)
  BY NatLessThanWellFounded, Zenon
<1>3. \A x \in Nat, y \in Nat : y < x => <<y, x>> \in R
  BY DEF OpToRel
<1> HIDE DEF R
<1>4. \E x \in D : \A y \in D : ~ (<<y, x>> \in R)
  <2> HIDE DEF D
  <2> QED
    BY <1>1, <1>2, WFMin, Zenon
<1>5. PICK i \in T : \A y \in D : ~ (<<y, n - i>> \in R)
  BY <1>4
<1>6. ASSUME NEW j \in T PROVE j <= i
  <2>1. n - j \in D /\ n - j \in Nat /\ n - i \in Nat
    OBVIOUS
  <2>2. ~(n - j < n - i)
    BY <2>1, <1>3, <1>5
  <2> QED
    BY <2>2
<1> QED
  BY <1>6

\* The list made stable is a list of messages as long as before; and if only the
\* last message waited, none does.
LEMMA Sanitized ==
    ASSUME NEW list \in Seq(Message)
    PROVE  /\ sanitizeMessagesOnLoad(list) \in Seq(Message)
           /\ Len(sanitizeMessagesOnLoad(list)) = Len(list)
           /\ OwnTexts(list) => OwnTexts(sanitizeMessagesOnLoad(list))
           /\ LastWaits(list) =>
                \A i \in 1..Len(list) : AtRest(sanitizeMessagesOnLoad(list)[i])
<1> DEFINE stuck == {i \in DOMAIN list : list[i].status \in Waiting}
<1> DEFINE i == CHOOSE i \in stuck : \A j \in stuck : j <= i
<1>d. DOMAIN list = 1..Len(list) /\ Len(list) \in Nat
      /\ \A j \in 1..Len(list) : list[j] \in Message
  BY LenProperties, ElementOfSeq
<1>1. CASE stuck = {}
  <2>1. sanitizeMessagesOnLoad(list) = list
    BY <1>1 DEF sanitizeMessagesOnLoad
  <2> QED
    BY <1>1, <1>d, <2>1 DEF AtRest
<1>2. CASE stuck # {}
  <2>1. stuck \subseteq 1..Len(list)
    BY <1>d
  <2>2. \E k \in stuck : \A j \in stuck : j <= k
    <3> HIDE DEF stuck
    <3> QED
      BY <1>2, <1>d, <2>1, LastPosition
  <2>3. i \in stuck /\ \A j \in stuck : j <= i
    <3> HIDE DEF stuck
    <3> QED
      BY <2>2
  <2>i. i \in 1..Len(list) /\ ~AtRest(list[i])
    BY <2>1, <2>3 DEF AtRest
  <2>4. list[i] \in Reply
    BY <1>d, <2>i, OnlyRepliesWait
  <2> DEFINE new == IF list[i].text # {} THEN Finalized(list[i]) ELSE WithError(list[i])
  <2>5. new \in Reply /\ AtRest(new) /\ (OwnText(list[i]) => OwnText(new))
    BY <2>4, FinalizedReply, ErrorReply
  <2>6. sanitizeMessagesOnLoad(list) = [list EXCEPT ![i] = new]
    <3>1. CASE list[i].text # {}
      BY <1>2, <3>1 DEF sanitizeMessagesOnLoad
    <3>2. CASE ~(list[i].text # {})
      BY <1>2, <3>2 DEF sanitizeMessagesOnLoad
    <3> QED
      BY <3>1, <3>2
  <2> HIDE DEF i, new
  <2>n. new \in Message
    BY <2>5 DEF Reply
  <2> DEFINE s == [list EXCEPT ![i] = new]
  <2>7. s \in Seq(Message) /\ Len(s) = Len(list)
        /\ \A j \in 1..Len(list) : s[j] = IF j = i THEN new ELSE list[j]
    BY <2>i, <2>n, ExceptSeq
  <2> HIDE DEF s
  <2>8. DOMAIN s = 1..Len(list)
    BY <2>7, LenProperties
  <2>9. OwnTexts(list) => OwnTexts(s)
    BY <1>d, <2>5, <2>7, <2>8, <2>i DEF OwnTexts
  <2>10. ASSUME LastWaits(list), NEW j \in 1..Len(list) PROVE AtRest(s[j])
    <3>1. i = Len(list)
      BY <1>d, <2>i, <2>10 DEF LastWaits
    <3>2. CASE j = i
      BY <2>5, <2>7, <3>2
    <3>3. CASE j # i
      BY <1>d, <2>7, <2>10, <3>1, <3>3 DEF LastWaits
    <3> QED
      BY <3>2, <3>3
  <2> QED
    BY <2>6, <2>7, <2>9, <2>10 DEF s
<1> QED
  BY <1>1, <1>2

\* The two new messages are messages.
LEMMA CreatedMessages ==
    ASSUME NEW r \in Requests
    PROVE  /\ createUserMessage(r) \in Message /\ AtRest(createUserMessage(r))
           /\ OwnText(createUserMessage(r))
           /\ createLoadingAssistantMessage(r) \in Reply
           /\ createLoadingAssistantMessage(r).of = r
           /\ OwnText(createLoadingAssistantMessage(r))
<1>1. createLoadingAssistantMessage(r) \in Reply
  BY ReplyRecord DEF createLoadingAssistantMessage, Waiting
<1>2. createUserMessage(r) \in Message
  BY DEF createUserMessage, Message
<1> QED
  BY <1>1, <1>2
     DEF createUserMessage, createLoadingAssistantMessage, AtRest, Waiting, OwnText

\* An edited list has the same messages but for a text.
LEMMA EditedList ==
    ASSUME NEW list \in Seq(Message)
    PROVE  /\ Edited(list) \in Seq(Message) /\ Len(Edited(list)) = Len(list)
           /\ \A i \in 1..Len(list) :
                /\ Edited(list)[i].from = list[i].from /\ Edited(list)[i].of = list[i].of
                /\ AtRest(list[i]) <=> AtRest(Edited(list)[i])
                /\ OwnText(list[i]) => OwnText(Edited(list)[i])
<1>d. DOMAIN list = 1..Len(list) /\ Len(list) \in Nat
      /\ \A j \in 1..Len(list) : list[j] \in Message
  BY LenProperties, ElementOfSeq
<1>1. ASSUME NEW m \in Message
      PROVE  /\ [m EXCEPT !.text = {None}] \in Message
             /\ [m EXCEPT !.text = {None}].from = m.from
             /\ [m EXCEPT !.text = {None}].of = m.of
             /\ [m EXCEPT !.text = {None}].status = m.status
             /\ [m EXCEPT !.text = {None}].text = {None}
  <2>1. {None} \in SUBSET {None} /\ {None} \in SUBSET (Requests \cup {None})
    OBVIOUS
  <2> QED
    BY <1>1, <2>1 DEF Message
<1>2. {None} \cap Requests = {}
  BY RequestsAssumption DEF None, Requests
<1> DEFINE e == Edited(list)
<1>3. e = [j \in 1..Len(list) |->
            IF Key(list[j]) = editing THEN [list[j] EXCEPT !.text = {None}] ELSE list[j]]
  BY <1>d DEF Edited
<1> HIDE DEF e
<1>4. \A j \in 1..Len(list) : e[j] \in Message
  BY <1>1, <1>3, <1>d
<1>5. e \in [1..Len(list) -> Message]
  BY <1>3, <1>4
<1>6. e \in Seq(Message) /\ Len(e) = Len(list)
  BY <1>5, <1>d, SeqDef, LenProperties
<1>7. ASSUME NEW j \in 1..Len(list)
      PROVE  /\ e[j].from = list[j].from /\ e[j].of = list[j].of
             /\ AtRest(list[j]) <=> AtRest(e[j])
             /\ OwnText(list[j]) => OwnText(e[j])
  <2>1. CASE Key(list[j]) = editing
    <3>1. e[j] = [list[j] EXCEPT !.text = {None}]
      BY <1>3, <2>1
    <3> QED
      BY <1>1, <1>2, <1>d, <3>1 DEF AtRest, OwnText
  <2>2. CASE Key(list[j]) # editing
    BY <1>3, <2>2
  <2> QED
    BY <2>1, <2>2
<1> QED
  BY <1>6, <1>7 DEF e

\* Nothing is the name of no request.
LEMMA NoneIsNoRequest == None \notin Requests
BY RequestsAssumption DEF None, Requests

\* A list that its stream follows has no waiting message but the last, and none
\* at all without a stream.
LEMMA FollowedRests ==
    ASSUME NEW list \in Seq(Message), NEW now, Followed(list, now)
    PROVE  /\ LastWaits(list)
           /\ now = None => \A i \in DOMAIN list : AtRest(list[i])
<1>1. \A i \in DOMAIN list : list[i] \in Message
  BY LenProperties, ElementOfSeq
<1>2. ASSUME now = None, NEW i \in DOMAIN list PROVE AtRest(list[i])
  <2>1. SUFFICES ASSUME ~AtRest(list[i]) PROVE FALSE
    OBVIOUS
  <2>2. list[i] \in Reply /\ list[i].of = None
    BY <1>1, <1>2, <2>1, OnlyRepliesWait DEF Followed
  <2> QED
    BY <2>2, ReplyRecord, NoneIsNoRequest
<1> QED
  BY <1>2 DEF Followed, LastWaits

\* A button's list is rendered at once.
LEMMA Rendered ==
    ASSUME NEW list, NEW now, FromButton(list, now)
    PROVE  /\ view'.messages = list /\ view'.generating \in BOOLEAN
           /\ ~view'.generating => now = None
<1> DEFINE g == now # None
<1>1. view' = [messages |-> list, generating |-> g]
  BY DEF FromButton
<1>2. g \in BOOLEAN
  OBVIOUS
<1>3. ~g => now = None
  OBVIOUS
<1> HIDE DEF g
<1>4. view'.messages = list /\ view'.generating = g
  BY <1>1
<1> QED
  BY <1>2, <1>3, <1>4

\* What a button's list must be for the invariant to hold after it.
LEMMA FromButtonStep ==
    ASSUME ChatIInv, NEW list \in Seq(Message), NEW now \in Requests \cup {None},
           FromButton(list, now),
           sources' \in [Requests -> {"none", "open", "closed"}],
           complete' \in BOOLEAN, silent' \in BOOLEAN, raced' \in BOOLEAN,
           raced => raced',
           ~raced' => Open' \subseteq {now} /\ Followed(list, now) /\ OwnTexts(list)
    PROVE  ChatIInv'
<1>1. /\ messages' = list /\ current' = now /\ saved' \in {list, saved}
      /\ scheduled' = FALSE
  BY DEF FromButton, Store
<1>2. /\ view'.messages = list /\ view'.generating \in BOOLEAN
      /\ ~view'.generating => now = None
  BY Rendered
<1>3. saved \in Seq(Message)
  BY DEF ChatIInv, ChatTypeOK
<1>4. saved' \in Seq(Message)
  BY <1>1, <1>3
<1>5. {scheduled', complete', silent', raced'} \subseteq BOOLEAN
  BY <1>1
<1>6. ChatTypeOK'
  BY <1>1, <1>2, <1>4, <1>5 DEF ChatTypeOK
<1>7. ButtonInv'
  BY <1>1, <1>2 DEF ButtonInv
<1>8. ASSUME ~raced'
      PROVE  /\ Open' \subseteq {current'}
             /\ Followed(messages', current') /\ OwnTexts(messages')
             /\ LastWaits(saved') /\ OwnTexts(saved')
  <2>1. Followed(list, now) /\ OwnTexts(list) /\ Open' \subseteq {now}
    BY <1>8
  <2>2. LastWaits(list)
    BY <2>1, FollowedRests
  <2>3. LastWaits(saved) /\ OwnTexts(saved)
    BY <1>8 DEF ChatIInv, ListInv
  <2> QED
    BY <1>1, <2>1, <2>2, <2>3
<1>9. ListInv'
  BY <1>8 DEF ListInv, OneStream, Followed, OwnTexts, LastWaits, OwnText, AtRest
<1> QED
  BY <1>6, <1>7, <1>9 DEF ChatIInv

\* The same for what a stream writes into the last reply.
LEMMA FromStreamStep ==
    ASSUME ChatIInv, NEW new, EndsWithReply(messages) => new \in Reply,
           FromStream(new),
           sources' \in [Requests -> {"none", "open", "closed"}],
           complete' \in BOOLEAN, current' \in {current, None},
           UNCHANGED <<silent, raced>>,
           ~raced =>
             /\ Open' \subseteq {current'}
             /\ EndsWithReply(messages) =>
                    /\ new.of = Last(messages).of
                    /\ OwnText(Last(messages)) => OwnText(new)
                    /\ current' # None \/ AtRest(new)
    PROVE  ChatIInv'
<1> DEFINE list == updateLastAssistantMessage(messages, new)
<1>t. ChatTypeOK
  BY DEF ChatIInv
<1>0. messages \in Seq(Message) /\ current \in Requests \cup {None}
      /\ saved \in Seq(Message) /\ scheduled \in BOOLEAN
  BY <1>t DEF ChatTypeOK
<1>1. /\ messages' = list /\ saved' \in {list, saved}
      /\ scheduled' \in BOOLEAN /\ view' = view
  BY DEF FromStream, Store
<1>2. /\ list \in Seq(Message) /\ Len(list) = Len(messages)
      /\ \A i \in 1..Len(messages) : list[i] =
            IF EndsWithReply(messages) /\ i = Len(messages) THEN new ELSE messages[i]
      /\ EndsWithReply(list) <=> EndsWithReply(messages)
      /\ EndsWithReply(messages) => Last(list) = new
  BY <1>0, Updated
<1> HIDE DEF list
<1>3. ChatTypeOK'
  <2>1. silent' \in BOOLEAN /\ raced' \in BOOLEAN
    BY <1>t DEF ChatTypeOK
  <2>2. {scheduled', complete', silent', raced'} \subseteq BOOLEAN
    BY <1>1, <2>1
  <2>3. current' \in Requests \cup {None} /\ saved' \in Seq(Message)
    BY <1>0, <1>1, <1>2
  <2> QED
    BY <1>t, <1>1, <1>2, <2>2, <2>3 DEF ChatTypeOK
<1>4. ButtonInv'
  BY <1>1 DEF ChatIInv, ButtonInv
<1>5. ASSUME ~raced'
      PROVE  /\ Open' \subseteq {current'}
             /\ Followed(messages', current') /\ OwnTexts(messages')
             /\ LastWaits(saved') /\ OwnTexts(saved')
  <2>1. ~raced /\ Open' \subseteq {current'}
    BY <1>5
  <2>2. /\ Followed(messages, current) /\ OwnTexts(messages)
        /\ LastWaits(saved) /\ OwnTexts(saved)
    BY <2>1 DEF ChatIInv, ListInv
  <2>d. DOMAIN messages = 1..Len(messages) /\ DOMAIN list = 1..Len(messages)
    BY <1>0, <1>2, LenProperties
  <2>l. EndsWithReply(messages) =>
            Len(messages) \in 1..Len(messages) /\ Last(messages) = messages[Len(messages)]
    BY <1>0, LastReply
  <2>3. OwnTexts(list)
    <3>1. SUFFICES ASSUME NEW i \in 1..Len(messages) PROVE OwnText(list[i])
      BY <2>d DEF OwnTexts
    <3>2. OwnText(messages[i])
      BY <2>2, <2>d DEF OwnTexts
    <3>3. CASE EndsWithReply(messages) /\ i = Len(messages)
      BY <1>2, <2>1, <2>l, <3>2, <3>3
    <3>4. CASE ~(EndsWithReply(messages) /\ i = Len(messages))
      BY <1>2, <3>2, <3>4
    <3> QED
      BY <3>3, <3>4
  <2>4. current' # None => EndsWithReply(list) /\ Last(list).of = current'
    BY <1>2, <2>1, <2>2 DEF Followed
  <2>5. ASSUME NEW i \in 1..Len(messages), ~AtRest(list[i])
        PROVE  i = Len(list) /\ list[i].of = current'
    <3>1. CASE EndsWithReply(messages) /\ i = Len(messages)
      <4>1. list[i] = new /\ current' # None
        BY <1>2, <2>1, <2>5, <3>1
      <4> QED
        BY <1>2, <2>4, <3>1, <4>1
    <3>2. CASE ~(EndsWithReply(messages) /\ i = Len(messages))
      <4>1. ~AtRest(messages[i])
        BY <1>2, <2>5, <3>2
      <4>2. i = Len(messages) /\ messages[i] \in Reply /\ messages # <<>>
        <5>1. i = Len(messages)
          BY <2>2, <2>d, <4>1 DEF Followed
        <5>2. messages[i] \in Reply
          BY <1>0, <4>1, OnlyRepliesWait, ElementOfSeq
        <5>3. messages # <<>>
          BY <1>0, EmptySeq
        <5> QED
          BY <5>1, <5>2, <5>3
      <4>3. EndsWithReply(messages)
        BY <4>2 DEF EndsWithReply, Last, Reply
      <4> QED
        BY <3>2, <4>2, <4>3
    <3> QED
      BY <3>1, <3>2
  <2>6. Followed(list, current')
    BY <2>4, <2>5, <2>d DEF Followed
  <2>7. LastWaits(list)
    BY <1>2, <2>6, FollowedRests
  <2> QED
    BY <1>1, <2>1, <2>2, <2>3, <2>6, <2>7
<1>6. ListInv'
  BY <1>5 DEF ListInv, OneStream, Followed, OwnTexts, LastWaits, OwnText, AtRest
<1> QED
  BY <1>3, <1>4, <1>6 DEF ChatIInv

\* How the list starts that sendStreamRequest takes: with a reply of the new
\* request at its end; if the page is as it was rendered and has no stream, the
\* messages before it wait for nothing.
Begun(list, r) ==
    /\ list \in Seq(Message) /\ EndsWithReply(list)
    /\ Last(list).of = r /\ OwnText(Last(list))
    /\ ~raced /\ current = None /\ view.messages = messages =>
         \A i \in 1..Len(list) : i < Len(list) => AtRest(list[i]) /\ OwnText(list[i])

\* A request that starts, or fails to start, on such a list keeps the invariant.
LEMMA RequestStep ==
    ASSUME ChatIInv, NEW r \in Requests, NEW list, Begun(list, r),
           sendStreamRequest(r, list)
    PROVE  ChatIInv'
<1>t. ChatTypeOK
  BY DEF ChatIInv
<1>0. /\ sources \in [Requests -> {"none", "open", "closed"}]
      /\ silent' \in BOOLEAN /\ complete' \in BOOLEAN
      /\ raced' \in BOOLEAN /\ (raced => raced')
  BY <1>t DEF ChatTypeOK, sendStreamRequest
<1>1. list \in Seq(Message) /\ EndsWithReply(list) /\ Last(list).of = r /\ OwnText(Last(list))
  BY DEF Begun
<1>2. /\ Len(list) \in 1..Len(list) /\ Last(list) = list[Len(list)] /\ Last(list) \in Reply
      /\ DOMAIN list = 1..Len(list)
  BY <1>1, LastReply, LenProperties
<1>o. OwnText(list[Len(list)]) /\ list[Len(list)].of = r
  BY <1>1, <1>2, Zenon
<1>b. \A i \in 1..Len(list) : i < Len(list) \/ i = Len(list)
  BY <1>1, LenProperties
<1>3. ASSUME ~raced'
      PROVE  /\ Open = {}
             /\ \A i \in 1..Len(list) : i < Len(list) => AtRest(list[i]) /\ OwnText(list[i])
  <2>1. ~raced /\ current = None /\ view.messages = messages
    BY <1>3 DEF sendStreamRequest
  <2>2. Open \subseteq {None}
    BY <2>1 DEF ChatIInv, ListInv, OneStream
  <2> QED
    BY <2>1, <2>2, NoneIsNoRequest DEF Begun, Open
<1>4. CASE sources' = [sources EXCEPT ![r] = "open"] /\ FromButton(list, r)
  <2>1. sources' \in [Requests -> {"none", "open", "closed"}]
    BY <1>0, <1>4
  <2>2. ASSUME ~raced' PROVE Open' \subseteq {r} /\ Followed(list, r) /\ OwnTexts(list)
    <3>1. Open' \subseteq {r}
      BY <1>0, <1>3, <1>4, <2>2 DEF Open
    <3>2. \A i \in 1..Len(list) : OwnText(list[i])
      BY <1>o, <1>b, <1>3, <2>2
    <3>3. \A i \in 1..Len(list) : ~AtRest(list[i]) => i = Len(list) /\ list[i].of = r
      BY <1>o, <1>b, <1>3, <2>2
    <3> QED
      BY <1>1, <1>2, <3>1, <3>2, <3>3 DEF Followed, OwnTexts
  <2> QED
    BY <1>0, <1>1, <1>4, <2>1, <2>2, FromButtonStep
<1>5. CASE /\ sources' = [sources EXCEPT ![r] = "closed"]
           /\ FromButton(updateLastAssistantMessage(list, WithError(Last(list))), None)
  <2> DEFINE new == WithError(Last(list))
  <2> DEFINE ended == updateLastAssistantMessage(list, new)
  <2>1. sources' \in [Requests -> {"none", "open", "closed"}]
    BY <1>0, <1>5
  <2>2. new \in Reply /\ AtRest(new) /\ OwnText(new)
    BY <1>2, ErrorReply
  <2>3. FromButton(ended, None)
    BY <1>5
  <2> HIDE DEF new
  <2>4. /\ ended \in Seq(Message) /\ Len(ended) = Len(list)
        /\ \A i \in 1..Len(list) : ended[i] =
              IF EndsWithReply(list) /\ i = Len(list) THEN new ELSE list[i]
    BY <1>1, <2>2, Updated
  <2> HIDE DEF ended
  <2>d. DOMAIN ended = 1..Len(list)
    BY <2>4, LenProperties
  <2>5. ASSUME ~raced' PROVE Open' \subseteq {None} /\ Followed(ended, None) /\ OwnTexts(ended)
    <3>1. Open' \subseteq {None}
      BY <1>0, <1>3, <1>5, <2>5 DEF Open
    <3>2. \A i \in 1..Len(list) : AtRest(ended[i]) /\ OwnText(ended[i])
      <4>1. \A i \in 1..Len(list) : i < Len(list) => ended[i] = list[i]
        BY <2>4, <1>1, LenProperties
      <4>2. ended[Len(list)] = new
        BY <1>1, <1>2, <2>4
      <4> QED
        BY <1>b, <1>3, <2>2, <2>5, <4>1, <4>2
    <3> QED
      BY <2>d, <3>1, <3>2 DEF Followed, OwnTexts
  <2> QED
    BY <1>0, <2>1, <2>3, <2>4, <2>5, FromButtonStep
<1> QED
  BY <1>4, <1>5 DEF sendStreamRequest

\* A page at rest as it was rendered: nothing in the list waits.
LEMMA QuietList ==
    ASSUME ChatIInv
    PROVE  /\ view.messages \in Seq(Message)
           /\ ~raced /\ view.messages = messages =>
                /\ Followed(view.messages, current) /\ OwnTexts(view.messages)
                /\ current = None =>
                    \A i \in 1..Len(view.messages) :
                        AtRest(view.messages[i]) /\ OwnText(view.messages[i])
<1>1. view.messages \in Seq(Message)
  BY DEF ChatIInv, ChatTypeOK
<1>2. DOMAIN view.messages = 1..Len(view.messages)
  BY <1>1, LenProperties
<1>3. ASSUME ~raced, view.messages = messages
      PROVE  Followed(view.messages, current) /\ OwnTexts(view.messages)
  <2>1. Followed(messages, current) /\ OwnTexts(messages)
    BY <1>3 DEF ChatIInv, ListInv
  <2> QED
    BY <2>1, <1>3
<1>4. ASSUME ~raced, view.messages = messages, current = None
      PROVE  \A i \in 1..Len(view.messages) :
                AtRest(view.messages[i]) /\ OwnText(view.messages[i])
  BY <1>1, <1>2, <1>3, <1>4, FollowedRests DEF OwnTexts
<1> QED
  BY <1>1, <1>3, <1>4

\* The list of handleSendMessage.
LEMMA SendBegins ==
    ASSUME ChatIInv, NEW r \in Requests
    PROVE  Begun(view.messages
                 \o <<createUserMessage(r), createLoadingAssistantMessage(r)>>, r)
<1> DEFINE old == view.messages
<1> DEFINE u == createUserMessage(r)
<1> DEFINE a == createLoadingAssistantMessage(r)
<1>1. /\ u \in Message /\ AtRest(u) /\ OwnText(u)
      /\ a \in Message /\ a.from = "assistant" /\ a.of = r /\ OwnText(a)
  BY CreatedMessages DEF Reply
<1>2. /\ old \in Seq(Message)
      /\ ~raced /\ old = messages /\ current = None =>
                    \A i \in 1..Len(old) : AtRest(old[i]) /\ OwnText(old[i])
  BY QuietList
<1> HIDE DEF old, u, a
<1>3. <<u, a>> \in Seq(Message) /\ Len(<<u, a>>) = 2 /\ <<u, a>>[1] = u /\ <<u, a>>[2] = a
  BY <1>1
<1> DEFINE list == old \o <<u, a>>
<1>l. Len(old) \in Nat
  BY <1>2, LenProperties
<1>4. /\ list \in Seq(Message) /\ Len(list) = Len(old) + 2
      /\ \A i \in 1..Len(old) + 2 : list[i] =
            IF i <= Len(old) THEN old[i] ELSE <<u, a>>[i - Len(old)]
  BY <1>2, <1>3, ConcatProperties
<1> HIDE DEF list
<1>5. list[Len(old) + 2] = a /\ list[Len(old) + 1] = u
  BY <1>3, <1>4, <1>l
<1>6. Last(list) = a /\ list # <<>>
  BY <1>4, <1>5, <1>l, EmptySeq DEF Last
<1>7. ASSUME ~raced, current = None, old = messages, NEW i \in 1..Len(list), i < Len(list)
      PROVE  AtRest(list[i]) /\ OwnText(list[i])
  <2>1. CASE i <= Len(old)
    BY <1>2, <1>4, <1>7, <1>l, <2>1
  <2>2. CASE i > Len(old)
    <3>1. i = Len(old) + 1
      BY <1>4, <1>7, <1>l, <2>2
    <3> QED
      BY <1>1, <1>5, <3>1
  <2> QED
    BY <1>4, <1>l, <2>1, <2>2
<1>8. Begun(list, r)
  BY <1>1, <1>4, <1>6, <1>7 DEF Begun, EndsWithReply, old
<1> QED
  BY <1>8 DEF list, old, u, a

\* The list of a request made again for the messages before position n, edited or
\* not.
LEMMA AgainBegins ==
    ASSUME ChatIInv, NEW r \in Requests, NEW old \in Seq(Message), NEW n \in 0..Len(old),
           ~raced /\ current = None /\ view.messages = messages =>
                \A i \in 1..Len(old) : AtRest(old[i]) /\ OwnText(old[i])
    PROVE  Begun(Append(SubSeq(old, 1, n), createLoadingAssistantMessage(r)), r)
<1> DEFINE a == createLoadingAssistantMessage(r)
<1>1. a \in Message /\ a.from = "assistant" /\ a.of = r /\ OwnText(a)
  BY CreatedMessages DEF Reply
<1> HIDE DEF a
<1>l. Len(old) \in Nat
  BY LenProperties
<1> DEFINE kept == SubSeq(old, 1, n)
<1>2. \A i \in 1..n : old[i] \in Message
  BY <1>l, ElementOfSeq
<1>3. /\ kept \in Seq(Message) /\ Len(kept) = n
      /\ \A i \in 1..n : kept[i] = old[i]
  BY <1>2, <1>l, SubSeqProperties
<1> HIDE DEF kept
<1> DEFINE list == Append(kept, a)
<1>4. /\ list \in Seq(Message) /\ list # <<>> /\ Len(list) = n + 1
      /\ \A i \in 1..n : list[i] = kept[i]
      /\ list[n + 1] = a
  BY <1>1, <1>3, AppendProperties
<1> HIDE DEF list
<1>5. Last(list) = a
  BY <1>4 DEF Last
<1>6. ASSUME ~raced, current = None, view.messages = messages,
             NEW i \in 1..Len(list), i < Len(list)
      PROVE  AtRest(list[i]) /\ OwnText(list[i])
  <2>1. i \in 1..n /\ i \in 1..Len(old)
    BY <1>4, <1>6, <1>l
  <2> QED
    BY <1>3, <1>4, <1>6, <2>1
<1>7. Begun(list, r)
  BY <1>1, <1>4, <1>5, <1>6 DEF Begun, EndsWithReply
<1> QED
  BY <1>7 DEF list, kept, a

\* The page starts empty.
LEMMA ChatStarts == ChatInit => ChatIInv
<1> SUFFICES ASSUME ChatInit PROVE ChatIInv
    OBVIOUS
<1>1. <<>> \in Seq(Message) /\ DOMAIN <<>> = {} /\ view.messages = <<>>
      /\ view.generating = FALSE
  BY DEF ChatInit
<1>2. {scheduled, complete, silent, raced} \subseteq BOOLEAN
  BY DEF ChatInit
<1>3. ChatTypeOK
  BY <1>1, <1>2 DEF ChatInit, ChatTypeOK
<1>4. ButtonInv
  BY DEF ChatInit, ButtonInv
<1>5. Open = {}
  BY DEF ChatInit, Open
<1>6. \A i \in DOMAIN messages : FALSE
  BY DEF ChatInit
<1>7. \A i \in DOMAIN saved : FALSE
  BY DEF ChatInit
<1>8. current = None
  BY DEF ChatInit
<1>9. ListInv
  BY <1>5, <1>6, <1>7, <1>8 DEF ListInv, OneStream, Followed, OwnTexts, LastWaits
<1> QED
  BY <1>3, <1>4, <1>9 DEF ChatIInv

\* Sending keeps the invariant, whenever it is done.
LEMMA SendStep ==
    ASSUME ChatIInv, handleSendMessage
    PROVE  ChatIInv'
<1>1. PICK r \in Unused :
        sendStreamRequest(r, view.messages
                \o <<createUserMessage(r), createLoadingAssistantMessage(r)>>)
  BY DEF handleSendMessage
<1>2. r \in Requests
  BY DEF Unused
<1> QED
  BY <1>1, <1>2, SendBegins, RequestStep

\* So does asking for a reply again.
LEMMA RegenerateStep ==
    ASSUME ChatIInv, handleRegenerateMessage
    PROVE  ChatIInv'
<1>1. PICK r \in Unused, i \in DOMAIN view.messages :
        sendStreamRequest(r, Append(SubSeq(view.messages, 1, i - 1),
                                       createLoadingAssistantMessage(r)))
  BY DEF handleRegenerateMessage
<1>2. r \in Requests
  BY DEF Unused
<1>3. view.messages \in Seq(Message)
  BY QuietList
<1>4. i - 1 \in 0..Len(view.messages)
  BY <1>3, LenProperties
<1>5. ~raced /\ current = None /\ view.messages = messages =>
        \A j \in 1..Len(view.messages) : AtRest(view.messages[j]) /\ OwnText(view.messages[j])
  BY QuietList
<1>6. Begun(Append(SubSeq(view.messages, 1, i - 1), createLoadingAssistantMessage(r)), r)
  BY <1>2, <1>3, <1>4, <1>5, AgainBegins
<1> QED
  BY <1>1, <1>2, <1>6, RequestStep

\* And saving an edit, with or without a new request.
LEMMA EditStep ==
    ASSUME ChatIInv, applyEdit
    PROVE  ChatIInv'
<1> DEFINE old == view.messages
<1> DEFINE new == Edited(old)
<1>t. ChatTypeOK
  BY DEF ChatIInv
<1>1. old \in Seq(Message) /\ DOMAIN old = 1..Len(old) /\ Len(old) \in Nat
  BY QuietList, LenProperties
<1>2. /\ new \in Seq(Message) /\ Len(new) = Len(old) /\ DOMAIN new = 1..Len(old)
      /\ \A i \in 1..Len(old) :
            /\ new[i].from = old[i].from /\ new[i].of = old[i].of
            /\ AtRest(old[i]) <=> AtRest(new[i])
            /\ OwnText(old[i]) => OwnText(new[i])
  BY <1>1, EditedList, LenProperties
<1>3. ~raced /\ old = messages =>
        /\ Followed(old, current) /\ OwnTexts(old)
        /\ current = None => \A i \in 1..Len(old) : AtRest(old[i]) /\ OwnText(old[i])
  BY QuietList
<1>4. CASE /\ raced' = (raced \/ view.messages # messages)
           /\ FromButton(Edited(view.messages), current)
           /\ UNCHANGED <<sources, complete, silent>>
  <2>1. /\ current \in Requests \cup {None}
        /\ sources' \in [Requests -> {"none", "open", "closed"}]
        /\ complete' \in BOOLEAN /\ silent' \in BOOLEAN /\ raced' \in BOOLEAN
        /\ (raced => raced')
    BY <1>4, <1>t DEF ChatTypeOK
  <2>2. ASSUME ~raced'
        PROVE  Open' \subseteq {current} /\ Followed(new, current) /\ OwnTexts(new)
    <3>1. ~raced /\ old = messages
      BY <1>4, <2>2
    <3>2. Followed(old, current) /\ OwnTexts(old)
      BY <1>3, <3>1
    <3>3. Open' \subseteq {current}
      BY <1>4, <3>1 DEF ChatIInv, ListInv, OneStream, Open
    <3> HIDE DEF old, new
    <3>4. OwnTexts(new)
      BY <1>1, <1>2, <3>2 DEF OwnTexts
    <3>5. current # None => EndsWithReply(new) /\ Last(new).of = current
      <4>1. SUFFICES ASSUME current # None PROVE EndsWithReply(new) /\ Last(new).of = current
        OBVIOUS
      <4>2. EndsWithReply(old) /\ Last(old).of = current
        BY <3>2, <4>1 DEF Followed
      <4>3. Len(old) \in 1..Len(old) /\ Last(old) = old[Len(old)]
        BY <1>1, <4>2, LastReply
      <4>4. Last(new) = new[Len(old)]
        BY <1>2 DEF Last
      <4>5. new # <<>>
        BY <1>2, <4>3, EmptySeq
      <4>6. Last(new).from = "assistant" /\ Last(new).of = current
        BY <1>2, <4>2, <4>3, <4>4 DEF EndsWithReply
      <4> QED
        BY <4>5, <4>6 DEF EndsWithReply
    <3>6. \A i \in 1..Len(old) : ~AtRest(new[i]) => i = Len(new) /\ new[i].of = current
      BY <1>1, <1>2, <3>2 DEF Followed
    <3> QED
      BY <1>2, <3>3, <3>4, <3>5, <3>6 DEF Followed
  <2> QED
    BY <1>2, <1>4, <2>1, <2>2, FromButtonStep
<1>5. ASSUME NEW i \in DOMAIN view.messages, NEW r \in Unused,
             sendStreamRequest(r, Append(SubSeq(Edited(view.messages), 1, i),
                                         createLoadingAssistantMessage(r)))
      PROVE  ChatIInv'
  <2>1. r \in Requests /\ i \in 0..Len(new)
    BY <1>1, <1>2, <1>5 DEF Unused
  <2>2. ~raced /\ current = None /\ view.messages = messages =>
            \A j \in 1..Len(new) : AtRest(new[j]) /\ OwnText(new[j])
    BY <1>2, <1>3
  <2>3. Begun(Append(SubSeq(new, 1, i), createLoadingAssistantMessage(r)), r)
    <3> HIDE DEF new
    <3> QED
      BY <1>2, <2>1, <2>2, AgainBegins
  <2> QED
    BY <1>5, <2>1, <2>3, RequestStep
<1> QED
  BY <1>4, <1>5 DEF applyEdit

\* Deleting leaves a list at rest.
LEMMA DeleteStep ==
    ASSUME ChatIInv, handleDeleteMessage
    PROVE  ChatIInv'
<1> DEFINE old == view.messages
<1>t. ChatTypeOK
  BY DEF ChatIInv
<1>1. old \in Seq(Message) /\ DOMAIN old = 1..Len(old) /\ Len(old) \in Nat
      /\ \A i \in 1..Len(old) : old[i] \in Message
  BY QuietList, LenProperties, ElementOfSeq
<1>2. PICK n \in 1..Len(old) : FromButton(RemoveAt(old, n), current)
  BY <1>1 DEF handleDeleteMessage
<1>3. current = None
  BY DEF ChatIInv, ButtonInv, handleDeleteMessage
<1>4. ~raced /\ old = messages => \A i \in 1..Len(old) : AtRest(old[i]) /\ OwnText(old[i])
  BY <1>3, QuietList
<1>5. /\ sources' \in [Requests -> {"none", "open", "closed"}]
      /\ complete' \in BOOLEAN /\ silent' \in BOOLEAN /\ raced' \in BOOLEAN
      /\ (raced => raced') /\ (~raced' => ~raced /\ old = messages)
      /\ sources' = sources
  BY <1>t DEF ChatTypeOK, handleDeleteMessage
<1> HIDE DEF old
<1> DEFINE s1 == SubSeq(old, 1, n - 1)
<1> DEFINE s2 == SubSeq(old, n + 1, Len(old))
<1>6. /\ s1 \in Seq(Message) /\ Len(s1) = n - 1
      /\ \A i \in 1..(n - 1) : s1[i] = old[i]
  <2>1. \A i \in 1..(n - 1) : old[i] \in Message
    BY <1>1
  <2> QED
    BY <1>1, <2>1, SubSeqProperties
<1>7. /\ s2 \in Seq(Message) /\ Len(s2) = Len(old) - n
      /\ \A i \in 1..(Len(old) - n) : s2[i] = old[n + i]
  <2> DEFINE m == n + 1
  <2> DEFINE k == Len(old)
  <2>1. \A i \in m..k : old[i] \in Message
    BY <1>1
  <2>2. m \in Int /\ k \in Int
    BY <1>1
  <2> HIDE DEF m, k
  <2>3. /\ SubSeq(old, m, k) \in Seq(Message)
        /\ Len(SubSeq(old, m, k)) = IF m <= k THEN k - m + 1 ELSE 0
        /\ \A i \in 1..(k - m + 1) : SubSeq(old, m, k)[i] = old[m + i - 1]
    BY <2>1, <2>2, SubSeqProperties
  <2>4. k - m + 1 = k - n /\ (~(m <= k) => k - n = 0) /\ \A i \in 1..(k - n) : m + i - 1 = n + i
    <3>1. k \in Nat /\ n \in 1..k /\ m = n + 1
      BY <1>1 DEF m, k
    <3>2. k - m + 1 = k - n
      BY <3>1
    <3>3. ~(m <= k) => k - n = 0
      BY <3>1
    <3>4. \A i \in 1..(k - n) : m + i - 1 = n + i
      BY <3>1
    <3> QED
      BY <3>2, <3>3, <3>4
  <2>5. Len(SubSeq(old, m, k)) = k - n
    BY <2>3, <2>4
  <2>6. \A i \in 1..(k - n) : SubSeq(old, m, k)[i] = old[n + i]
    BY <2>3, <2>4
  <2> QED
    BY <2>3, <2>5, <2>6 DEF m, k
<1> HIDE DEF s1, s2
<1> DEFINE new == s1 \o s2
<1>8. /\ new \in Seq(Message) /\ Len(new) = Len(s1) + Len(s2)
      /\ \A i \in 1..(Len(s1) + Len(s2)) : new[i] =
            IF i <= Len(s1) THEN s1[i] ELSE s2[i - Len(s1)]
  BY <1>6, <1>7, ConcatProperties
<1>9. FromButton(new, None)
  BY <1>2, <1>3 DEF RemoveAt, s1, s2
<1> HIDE DEF new
<1>10. \A i \in 1..Len(new) : \E j \in 1..Len(old) : new[i] = old[j]
  <2>1. TAKE i \in 1..Len(new)
  <2>2. CASE i <= n - 1
    BY <1>1, <1>6, <1>7, <1>8, <2>2
  <2>3. CASE i > n - 1
    <3>1. i - (n - 1) \in 1..(Len(old) - n) /\ n + (i - (n - 1)) \in 1..Len(old)
      BY <1>1, <1>6, <1>7, <1>8, <2>3
    <3>2. new[i] = old[n + (i - (n - 1))]
      BY <1>1, <1>6, <1>7, <1>8, <2>3, <3>1
    <3> QED
      BY <3>1, <3>2
  <2> QED
    BY <1>1, <2>2, <2>3
<1>11. DOMAIN new = 1..Len(new)
  BY <1>8, LenProperties
<1>12. ASSUME ~raced' PROVE Open' \subseteq {None} /\ Followed(new, None) /\ OwnTexts(new)
  <2>1. \A i \in 1..Len(new) : AtRest(new[i]) /\ OwnText(new[i])
    BY <1>4, <1>5, <1>10, <1>12
  <2>2. Open' \subseteq {None}
    BY <1>3, <1>5, <1>12 DEF ChatIInv, ListInv, OneStream, Open
  <2> QED
    BY <1>11, <2>1, <2>2 DEF Followed, OwnTexts
<1> QED
  BY <1>5, <1>8, <1>9, <1>12, FromButtonStep

\* Stopping leaves no stream and nothing that waits.
LEMMA StopStep ==
    ASSUME ChatIInv, stopGeneration
    PROVE  ChatIInv'
<1> DEFINE new == Finalized(Last(messages))
<1> DEFINE list == updateLastAssistantMessage(messages, new)
<1>t. ChatTypeOK
  BY DEF ChatIInv
<1>1. messages \in Seq(Message) /\ sources \in [Requests -> {"none", "open", "closed"}]
  BY <1>t DEF ChatTypeOK
<1>2. EndsWithReply(messages) =>
        /\ new \in Reply /\ AtRest(new)
        /\ Len(messages) \in 1..Len(messages) /\ Last(messages) = messages[Len(messages)]
        /\ OwnText(Last(messages)) => OwnText(new)
  BY <1>1, LastReply, FinalizedReply
<1>3. FromButton(list, None)
  BY DEF stopGeneration
<1> HIDE DEF new
<1>4. /\ list \in Seq(Message) /\ Len(list) = Len(messages)
      /\ \A i \in 1..Len(messages) : list[i] =
            IF EndsWithReply(messages) /\ i = Len(messages) THEN new ELSE messages[i]
  BY <1>1, <1>2, Updated
<1> HIDE DEF list
<1>5. /\ sources' \in [Requests -> {"none", "open", "closed"}]
      /\ complete' \in BOOLEAN /\ silent' \in BOOLEAN /\ raced' \in BOOLEAN
      /\ raced' = raced
  <2>1. sources' = [r \in Requests |-> IF r = current THEN "closed" ELSE sources[r]]
    BY DEF stopGeneration
  <2>2. sources' \in [Requests -> {"none", "open", "closed"}]
    BY <1>1, <2>1
  <2>3. complete' \in BOOLEAN /\ silent' \in BOOLEAN /\ raced' \in BOOLEAN /\ raced' = raced
    BY <1>t DEF ChatTypeOK, stopGeneration
  <2> QED
    BY <2>2, <2>3
<1>6. DOMAIN messages = 1..Len(messages) /\ DOMAIN list = 1..Len(messages)
      /\ \A i \in 1..Len(messages) : messages[i] \in Message
  BY <1>1, <1>4, LenProperties, ElementOfSeq
<1>7. ASSUME ~raced' PROVE Open' \subseteq {None} /\ Followed(list, None) /\ OwnTexts(list)
  <2>1. Followed(messages, current) /\ OwnTexts(messages) /\ Open \subseteq {current}
    BY <1>5, <1>7 DEF ChatIInv, ListInv, OneStream
  <2>2. Open' \subseteq {None}
    BY <1>1, <2>1 DEF stopGeneration, Open
  <2>3. ASSUME NEW i \in 1..Len(messages) PROVE AtRest(list[i]) /\ OwnText(list[i])
    <3>1. OwnText(messages[i]) /\ (~AtRest(messages[i]) => i = Len(messages))
      BY <1>6, <2>1 DEF OwnTexts, Followed
    <3>2. CASE EndsWithReply(messages) /\ i = Len(messages)
      BY <1>2, <1>4, <3>1, <3>2
    <3>3. CASE ~(EndsWithReply(messages) /\ i = Len(messages))
      <4>1. list[i] = messages[i]
        BY <1>4, <3>3
      <4>2. ASSUME ~AtRest(messages[i]) PROVE FALSE
        <5>1. i = Len(messages) /\ messages[i] \in Reply
          BY <1>6, <3>1, <4>2, OnlyRepliesWait
        <5>2. messages # <<>>
          BY <1>1, EmptySeq
        <5>3. EndsWithReply(messages)
          BY <5>1, <5>2 DEF EndsWithReply, Last, Reply
        <5> QED
          BY <3>3, <5>1, <5>3
      <4> QED
        BY <3>1, <4>1, <4>2
    <3> QED
      BY <3>2, <3>3
  <2> QED
    BY <1>6, <2>2, <2>3 DEF Followed, OwnTexts
<1> QED
  BY <1>3, <1>4, <1>5, <1>7, FromButtonStep

\* Whatever a stream does, it is the current one.
LEMMA StreamIsCurrent ==
    ASSUME ChatIInv, NEW r \in Requests, sources[r] = "open", ~raced
    PROVE  /\ current = r /\ r # None
           /\ EndsWithReply(messages) => Last(messages).of = r
<1>1. r \in Open
  BY DEF Open
<1>2. current = r /\ r # None
  BY <1>1, NoneIsNoRequest DEF ChatIInv, ListInv, OneStream
<1> QED
  BY <1>2 DEF ChatIInv, ListInv, Followed

\* A chunk goes to the reply it belongs to.
LEMMA ChunkStep ==
    ASSUME ChatIInv, NEW r \in Requests, handleStreamUpdate(r)
    PROVE  ChatIInv'
<1> DEFINE new == WithChunk(Last(messages), r)
<1>t. messages \in Seq(Message) /\ complete \in BOOLEAN
      /\ sources \in [Requests -> {"none", "open", "closed"}]
  BY DEF ChatIInv, ChatTypeOK
<1>1. /\ FromStream(new) /\ sources[r] = "open"
      /\ UNCHANGED <<sources, current, complete, silent, raced>>
  BY DEF handleStreamUpdate
<1>2. EndsWithReply(messages) =>
        /\ new \in Reply /\ new.of = Last(messages).of
        /\ OwnText(Last(messages)) /\ Last(messages).of = r => OwnText(new)
  BY <1>t, LastReply, ChunkReply
<1>3. ~raced => /\ current = r /\ r # None
                /\ EndsWithReply(messages) => Last(messages).of = r
  BY <1>1, StreamIsCurrent
<1>4. ~raced => Open' \subseteq {current'}
  BY <1>1 DEF ChatIInv, ListInv, OneStream, Open
<1> HIDE DEF new
<1> QED
  BY <1>t, <1>1, <1>2, <1>3, <1>4, FromStreamStep

\* The end of a stream puts its reply to rest.
LEMMA EndOfStreamStep ==
    ASSUME ChatIInv, NEW r \in Requests, sources[r] = "open", closeSource(r),
           NEW new, EndsWithReply(messages) => new \in Reply,
           EndsWithReply(messages) =>
                /\ AtRest(new) /\ new.of = Last(messages).of
                /\ OwnText(Last(messages)) => OwnText(new),
           FromStream(new), complete' \in BOOLEAN, UNCHANGED <<silent, raced>>
    PROVE  ChatIInv'
<1>t. sources \in [Requests -> {"none", "open", "closed"}]
  BY DEF ChatIInv, ChatTypeOK
<1>1. /\ sources' = [sources EXCEPT ![r] = "closed"] /\ current' = None
      /\ sources' \in [Requests -> {"none", "open", "closed"}]
  BY <1>t DEF closeSource
<1>2. ~raced => Open' \subseteq {current'}
  <2>1. ~raced => Open \subseteq {r}
    BY StreamIsCurrent DEF ChatIInv, ListInv, OneStream
  <2> QED
    BY <1>t, <1>1, <2>1 DEF Open
<1> QED
  BY <1>1, <1>2, FromStreamStep

\* [DONE] and errors end streams.
LEMMA CompleteStep ==
    ASSUME ChatIInv, NEW r \in Requests, handleStreamComplete(r)
    PROVE  ChatIInv'
<1> DEFINE new == Finalized(Last(messages))
<1>t. messages \in Seq(Message)
  BY DEF ChatIInv, ChatTypeOK
<1>1. /\ FromStream(new) /\ sources[r] = "open" /\ closeSource(r)
      /\ complete' \in BOOLEAN /\ UNCHANGED <<silent, raced>>
  BY DEF handleStreamComplete
<1>2. EndsWithReply(messages) => /\ new \in Reply /\ AtRest(new)
                                 /\ new.of = Last(messages).of
                                 /\ OwnText(Last(messages)) => OwnText(new)
  BY <1>t, LastReply, FinalizedReply
<1> HIDE DEF new
<1> QED
  BY <1>1, <1>2, EndOfStreamStep

\* An error that comes after some stream completed closes its stream only.
LEMMA ErrorStep ==
    ASSUME ChatIInv, NEW r \in Requests, handleStreamError(r)
    PROVE  ChatIInv'
<1>t. ChatTypeOK
  BY DEF ChatIInv
<1>0. /\ messages \in Seq(Message)
      /\ sources \in [Requests -> {"none", "open", "closed"}]
      /\ silent \in BOOLEAN /\ raced \in BOOLEAN /\ complete \in BOOLEAN
      /\ scheduled \in BOOLEAN
  BY <1>t DEF ChatTypeOK
<1>1. CASE complete
  <2>1. /\ sources' = [sources EXCEPT ![r] = "closed"]
        /\ UNCHANGED <<messages, view, scheduled, current, saved, complete, silent, raced>>
    BY <1>1 DEF handleStreamError
  <2>2. sources' \in [Requests -> {"none", "open", "closed"}] /\ Open' \subseteq Open
    BY <1>0, <2>1 DEF Open
  <2>3. ChatTypeOK'
    BY <1>t, <2>1, <2>2 DEF ChatTypeOK
  <2>4. ButtonInv'
    BY <2>1 DEF ChatIInv, ButtonInv
  <2>5. ListInv'
    BY <2>1, <2>2 DEF ChatIInv, ListInv, OneStream, Followed, OwnTexts, LastWaits, OwnText,
       AtRest
  <2> QED
    BY <2>3, <2>4, <2>5 DEF ChatIInv
<1>2. CASE ~complete
  <2> DEFINE new == WithError(Last(messages))
  <2>1. /\ FromStream(new) /\ sources[r] = "open" /\ closeSource(r)
        /\ complete' \in BOOLEAN /\ UNCHANGED <<silent, raced>>
    BY <1>0, <1>2 DEF handleStreamError
  <2>2. EndsWithReply(messages) => /\ new \in Reply /\ AtRest(new)
                                   /\ new.of = Last(messages).of /\ OwnText(new)
    BY <1>0, LastReply, ErrorReply
  <2> HIDE DEF new
  <2> QED
    BY <2>1, <2>2, EndOfStreamStep
<1> QED
  BY <1>1, <1>2

\* So does an end without [DONE].
LEMMA SilentStep ==
    ASSUME ChatIInv, NEW r \in Requests, EndsSilently(r)
    PROVE  ChatIInv'
<1>t. ChatTypeOK
  BY DEF ChatIInv
<1>0. sources \in [Requests -> {"none", "open", "closed"}] /\ raced \in BOOLEAN
      /\ complete \in BOOLEAN /\ scheduled \in BOOLEAN
  BY <1>t DEF ChatTypeOK
<1>1. /\ sources' = [sources EXCEPT ![r] = "closed"] /\ silent' = TRUE
      /\ UNCHANGED <<messages, view, scheduled, current, complete, saved, raced>>
  BY DEF EndsSilently
<1>2. sources' \in [Requests -> {"none", "open", "closed"}] /\ Open' \subseteq Open
  BY <1>0, <1>1 DEF Open
<1>3. {scheduled', complete', silent', raced'} \subseteq BOOLEAN
  BY <1>0, <1>1
<1>4. ChatTypeOK'
  BY <1>t, <1>1, <1>2, <1>3 DEF ChatTypeOK
<1>5. ButtonInv'
  BY <1>1 DEF ChatIInv, ButtonInv
<1>6. ListInv'
  BY <1>1, <1>2 DEF ChatIInv, ListInv, OneStream, Followed, OwnTexts, LastWaits, OwnText,
     AtRest
<1> QED
  BY <1>4, <1>5, <1>6 DEF ChatIInv

\* A rendering shows the list and the flag as they are.
LEMMA RenderStep ==
    ASSUME ChatIInv, Render
    PROVE  ChatIInv'
<1>t. ChatTypeOK
  BY DEF ChatIInv
<1>0. messages \in Seq(Message) /\ complete \in BOOLEAN /\ silent \in BOOLEAN
      /\ raced \in BOOLEAN
  BY <1>t DEF ChatTypeOK
<1>1. /\ scheduled' = FALSE
      /\ UNCHANGED <<messages, sources, current, complete, saved, silent, raced>>
  BY DEF Render
<1> DEFINE g == current # None
<1>2. view' = [messages |-> messages, generating |-> g]
  BY DEF Render
<1>3. g \in BOOLEAN /\ (~g => current = None)
  OBVIOUS
<1> HIDE DEF g
<1>4. view'.messages = messages /\ view'.generating = g
  BY <1>2
<1>5. {scheduled', complete', silent', raced'} \subseteq BOOLEAN
  BY <1>0, <1>1
<1>6. ChatTypeOK'
  BY <1>t, <1>0, <1>1, <1>3, <1>4, <1>5 DEF ChatTypeOK
<1>7. ButtonInv'
  BY <1>1, <1>3, <1>4 DEF ButtonInv
<1>8. ListInv'
  BY <1>1 DEF ChatIInv, ListInv, OneStream, Open, Followed, OwnTexts, LastWaits, OwnText,
     AtRest
<1> QED
  BY <1>6, <1>7, <1>8 DEF ChatIInv

\* A page loaded again shows a list at rest.
LEMMA LoadStep ==
    ASSUME ChatIInv, loadMessages
    PROVE  /\ ChatIInv'
           /\ ~raced => \A i \in DOMAIN messages' : messages'[i].status \notin Waiting
<1> DEFINE list == sanitizeMessagesOnLoad(saved)
<1>t. ChatTypeOK
  BY DEF ChatIInv
<1>0. /\ saved \in Seq(Message) /\ silent' \in BOOLEAN /\ raced' \in BOOLEAN
      /\ complete' \in BOOLEAN /\ raced' = raced
  BY <1>t DEF ChatTypeOK, loadMessages
<1>1. /\ list \in Seq(Message) /\ Len(list) = Len(saved)
      /\ OwnTexts(saved) => OwnTexts(list)
      /\ LastWaits(saved) => \A i \in 1..Len(saved) : AtRest(list[i])
  BY <1>0, Sanitized
<1>2. messages' = list
  BY DEF loadMessages
<1>3. FromButton(list, None)
  <2>1. /\ messages' = list /\ current' = None /\ Store(list) /\ scheduled' = FALSE
        /\ view' = [messages |-> list, generating |-> FALSE]
    BY DEF loadMessages
  <2>2. FALSE = (None # None)
    OBVIOUS
  <2> HIDE DEF list
  <2> DEFINE g == None # None
  <2>3. view' = [messages |-> list, generating |-> g]
    <3>1. FALSE = g
      BY <2>2
    <3> HIDE DEF g
    <3> QED
      BY <2>1, <3>1
  <2> QED
    BY <2>1, <2>3 DEF FromButton
<1> HIDE DEF list
<1>4. /\ sources' \in [Requests -> {"none", "open", "closed"}]
      /\ Open' = {}
  <2>1. sources \in [Requests -> {"none", "open", "closed"}]
    BY <1>t DEF ChatTypeOK
  <2>2. sources' = [r \in Requests |-> IF sources[r] = "open" THEN "closed" ELSE sources[r]]
    BY DEF loadMessages
  <2> QED
    BY <2>1, <2>2 DEF Open
<1>5. DOMAIN list = 1..Len(saved)
  BY <1>1, LenProperties
<1>6. ASSUME ~raced
      PROVE  Followed(list, None) /\ OwnTexts(list) /\ \A i \in DOMAIN list : AtRest(list[i])
  <2>1. LastWaits(saved) /\ OwnTexts(saved)
    BY <1>6 DEF ChatIInv, ListInv
  <2>2. \A i \in DOMAIN list : AtRest(list[i])
    BY <1>1, <1>5, <2>1
  <2> QED
    BY <1>1, <2>1, <2>2 DEF Followed
<1>7. ChatIInv'
  BY <1>0, <1>1, <1>3, <1>4, <1>6, FromButtonStep
<1>8. ~raced => \A i \in DOMAIN messages' : messages'[i].status \notin Waiting
  BY <1>2, <1>6 DEF AtRest
<1> QED
  BY <1>7, <1>8

\* The editor's buttons change nothing but which message is edited.
LEMMA NothingSaid ==
    ASSUME ChatIInv, UNCHANGED <<messages, view, scheduled, sources, current, complete,
                                 saved, silent, raced>>
    PROVE  ChatIInv'
<1>1. ChatTypeOK'
  BY DEF ChatIInv, ChatTypeOK
<1>2. ButtonInv'
  BY DEF ChatIInv, ButtonInv
<1>3. ListInv'
  BY DEF ChatIInv, ListInv, OneStream, Open, Followed, OwnTexts, LastWaits, OwnText, AtRest
<1> QED
  BY <1>1, <1>2, <1>3 DEF ChatIInv

\* In every reachable state of the chat page, with any number of requests, lists are
\* well formed, and unless requests raced each other the current stream is the only
\* one and its reply the last message.
THEOREM ChatInductive == ChatSpec => []ChatIInv
<1>1. ChatInit => ChatIInv
  BY ChatStarts
<1>2. ChatIInv /\ [ChatNext]_chatVars => ChatIInv'
  <2> SUFFICES ASSUME ChatIInv, [ChatNext]_chatVars PROVE ChatIInv'
    OBVIOUS
  <2>1. CASE Render
    BY <2>1, RenderStep
  <2>2. CASE handleSubmit \/ handleSuggestionClick
    BY <2>2, SendStep DEF handleSubmit, handleSuggestionClick
  <2>3. CASE handleRegenerateMessage
    BY <2>3, RegenerateStep
  <2>4. CASE handleEditMessage \/ handleEditOpenChange
    BY <2>4, NothingSaid DEF handleEditMessage, handleEditOpenChange
  <2>5. CASE applyEdit
    BY <2>5, EditStep
  <2>6. CASE handleDeleteMessage
    BY <2>6, DeleteStep
  <2>7. CASE stopGeneration
    BY <2>7, StopStep
  <2>8. CASE loadMessages
    BY <2>8, LoadStep
  <2>9. ASSUME NEW r \in Requests, handleStreamUpdate(r) \/ Ends(r) PROVE ChatIInv'
    BY <2>9, ChunkStep, CompleteStep, ErrorStep, SilentStep DEF Ends
  <2>10. CASE UNCHANGED chatVars
    BY <2>10, NothingSaid DEF chatVars
  <2> QED
    BY <2>1, <2>2, <2>3, <2>4, <2>5, <2>6, <2>7, <2>8, <2>9, <2>10 DEF ChatNext
<1> QED
  BY <1>1, <1>2, PTL DEF ChatSpec

\* A reply holds chunks of the stream that was opened for it and of no other,
\* although use-stream-request appends every chunk to whatever message is last.
THEOREM ChatSafe == ChatSpec => []ChatInv
<1>1. ChatIInv => ChatInv
  <2> SUFFICES ASSUME ChatIInv PROVE ChatInv
    OBVIOUS
  <2>1. ChatTypeOK /\ OneStream
    BY DEF ChatIInv, ListInv
  <2>2. ASSUME ~raced, NEW i \in DOMAIN messages, messages[i].from = "assistant",
               messages[i].text \cap Requests # {}
        PROVE  messages[i].text \cap Requests = {messages[i].of}
    <3>1. OwnText(messages[i])
      BY <2>2 DEF ChatIInv, ListInv, OwnTexts
    <3> QED
      BY <2>2, <3>1 DEF OwnText
  <2>3. OwnReply
    BY <2>2 DEF OwnReply
  <2> QED
    BY <2>1, <2>3 DEF ChatInv
<1> QED
  BY <1>1, ChatInductive, PTL

\* A reply that waits is the last message and belongs to the current stream: there is
\* something that will end it, and the stop button reaches it.
THEOREM ReplyCanBeStopped == ChatSpec => []WaitingCanBeStopped
<1>1. ChatIInv => WaitingCanBeStopped
  BY DEF ChatIInv, ListInv, Followed, AtRest, WaitingCanBeStopped
<1> QED
  BY <1>1, ChatInductive, PTL

\* sanitizeMessagesOnLoad makes the last waiting message stable, which is enough: no
\* message that local storage holds waits before it.
THEOREM LoadedAtRest == ChatSpec => StableAfterLoadUnraced
<1>1. ChatIInv /\ [ChatNext]_chatVars =>
        [loadMessages /\ ~raced
            => \A i \in DOMAIN messages' : messages'[i].status \notin Waiting]_chatVars
  BY LoadStep
<1> QED
  BY <1>1, ChatInductive, PTL DEF ChatSpec, StableAfterLoadUnraced

-----------------------------------------------------------------------------
(* The forms of the system settings                                        *)

\* What the choices of every section have in common: a copy of its own that no
\* save renews follows the cached copy, a form that a save renews is compared
\* with such a copy or is never reset, and a section with a copy of its own sends
\* what changed, through useUpdateOption, and has no secrets if saves renew the copy.
SoundChoices(s) ==
    /\ s \in Section
    /\ s.base # "prop" => s.sends = "changed" /\ s.via = "useUpdateOption"
    /\ s.base = "ref" => s.follow \in {"values", "any"}
    /\ s.base = "own" => s.rebases # "nothing"
    /\ s.rebases = "form" /\ s.follow # "never" => s.base = "ref" /\ s.follow = "values"
    /\ s.base # "prop" /\ s.rebases # "nothing" => s.secrets = "none"
    /\ s.blanks # "sent" => s.secrets # "none"

\* Every write so far has invalidated the copy: no section that invalidates it only
\* when all its PUTs are answered is in the middle of a save.
Announced == saving = NoSave \/ section.via = "useUpdateOption"

\* While nothing disturbs the fetches, a copy that is not marked is right, and so
\* is the answer on its way: any write that came later has marked the one and
\* would have joined the other.
CacheSound ==
    Uneventful /\ Announced =>
        /\ ~stale => cache = Served(server)
        /\ get.phase = "answered" => get.options = Served(server)

\* The section's copy is the cached one, or what the last save stored.
BaseSound ==
    /\ section.base = "ref" /\ section.rebases = "nothing" => base = Own(cache)
    /\ section.base # "prop" /\ section.rebases # "nothing" /\ Uneventful
           /\ saving = NoSave
       => base = Own(server)

\* An option nobody edited shows what the form was reset to: the cached copy or,
\* if saves reset the form, the section's own.
FieldsSound ==
    /\ section.follow # "never" /\ section.rebases # "form" =>
           \A k \in Keys \ touched : values[k] = cache[k]
    /\ section.follow = "values" /\ section.rebases # "form" => seen = Own(cache)
    /\ section.follow # "never" /\ section.rebases = "form" =>
           \A k \in Keys \ touched : values[k] = base[k]

\* The saves that SaveStores is about.
Promised ==
    /\ section.sends # "one"
    /\ \/ saving.fresh
       \/ section.rebases # "nothing" /\ section.base # "prop"
       \/ section.sends = "all"

\* What is not left to send is stored, whether it was sent or seemed unchanged,
\* or is a secret that was left blank.
SaveSound ==
    saving # NoSave /\ Uneventful /\ Promised =>
        \A k \in Keys \ saving.left : server[k] = saving.data[k] \/ LeftBlank(k)

\* All of it is inductive together.
FormIInv == FormTypeOK /\ CacheSound /\ BaseSound /\ FieldsSound /\ SaveSound

\* Every section makes choices that fit together.
LEMMA SectionsFit == \A s \in AllSections : SoundChoices(s)
<1> SUFFICES ASSUME NEW s \in AllSections PROVE SoundChoices(s)
    OBVIOUS
<1> DEFINE plain == {useSettingsForm, useResetForm, listEditor, wholeForm,
                     MonitoringSettingsSection, ChatSettingsSection, DashboardSection,
                     ClaudeSettingsCard, SSRFSection, CheckinSettingsSection,
                     FirstPurchaseDiscountSection}
<1> DEFINE secret == {EmailSettingsSection, WorkerSettingsSection, PaymentSettingsSection,
                      BotProtectionSection, WaffoSettingsSection, WaffoPancakeWebhookKeys,
                      IoNetDeploymentSettingsSection}
<1>1. s \in plain \cup secret
  BY Zenon
     DEF AllSections, PricingSection, QuotaSettingsSection,
         SystemInfoSection, BasicAuthSection, PasskeySection,
         SystemBehaviorSection, GrokSettingsCard, PerformanceSection,
         NoticeSection, LogSettingsSection, ChatSettingsSection,
         JsonToggleSection, ToolPriceSettings, AnnouncementsSection,
         ApiInfoSection, FAQSection, UptimeKumaSection, DashboardSection,
         SensitiveWordsSection, RateLimitSection, GlobalSettingsCard,
         HeaderNavigationSection, SidebarModulesSection,
         ClaudeSettingsCard, GeminiSettingsCard, RatioSettingsCard,
         WaffoSettingsSection, WaffoPancakeSettingsSection,
         CheckinSettingsSection, BlindBoxSettingsSection
<1>2. CASE s \in plain
  BY <1>2
     DEF Hook, Section, SoundChoices, useSettingsForm, useResetForm, listEditor, wholeForm,
         MonitoringSettingsSection, ChatSettingsSection, DashboardSection,
         ClaudeSettingsCard, SSRFSection, CheckinSettingsSection,
         FirstPurchaseDiscountSection
<1>3. CASE s \in secret
  <2> USE DEF Hook, With, Section, SoundChoices
  <2>1. SoundChoices(EmailSettingsSection) /\ SoundChoices(WorkerSettingsSection)
    BY DEF EmailSettingsSection, WorkerSettingsSection, useResetForm
  <2>2. SoundChoices(PaymentSettingsSection) /\ SoundChoices(BotProtectionSection)
    BY DEF PaymentSettingsSection, BotProtectionSection
  <2>3. SoundChoices(WaffoSettingsSection) /\ SoundChoices(WaffoPancakeWebhookKeys)
    BY DEF WaffoSettingsSection, WaffoPancakeWebhookKeys, wholeForm
  <2>4. SoundChoices(IoNetDeploymentSettingsSection)
    BY DEF IoNetDeploymentSettingsSection
  <2> QED
    BY <1>3, <2>1, <2>2, <2>3, <2>4
<1> QED
  BY <1>1, <1>2, <1>3

\* What an option's section sees of all options.
LEMMA OwnTyped ==
    ASSUME NEW o \in Options
    PROVE  Own(o) \in Data /\ \A k \in Keys : Own(o)[k] = o[k]
BY DEF Options, Data, Own

\* What the server serves of all options.
LEMMA ServedTyped ==
    ASSUME NEW o \in Options
    PROVE  /\ Served(o) \in Options
           /\ \A k \in Keys : Served(o)[k] = IF Hidden(k) THEN Blank ELSE o[k]
           /\ section.secrets = "none" => Own(Served(o)) = Own(o)
<1>1. DOMAIN o = Keys \cup {Foreign} /\ Blank \in Values
  BY OptionsAssumption DEF Options
<1>2. \A k \in Keys \cup {Foreign} :
          Served(o)[k] = (IF Hidden(k) THEN Blank ELSE o[k]) /\ Served(o)[k] \in Values
  BY <1>1 DEF Served, Options
<1>3. Served(o) \in Options
  BY <1>1, <1>2 DEF Served, Options
<1> QED
  BY <1>2, <1>3 DEF Hidden, Own

\* What is served changes with what is stored.
LEMMA ServedStays ==
    ASSUME server' = server, section' = section
    PROVE  Served(server)' = Served(server)
BY DEF Served, Hidden

\* The mounted section makes choices that fit together.
LEMMA SectionFits == FormTypeOK => SoundChoices(section)
BY SectionsAssumption, SectionsFit DEF FormTypeOK

\* A GET that has been answered holds options.
LEMMA AnsweredTyped ==
    ASSUME FormTypeOK, get.phase = "answered"
    PROVE  get.options \in Options
BY DEF FormTypeOK, NoGet

\* The form starts well typed.
LEMMA FormTypeInit == FormInit => FormTypeOK
<1> SUFFICES ASSUME FormInit PROVE FormTypeOK
    OBVIOUS
<1>1. server \in Options
  BY OptionsAssumption DEF FormInit, Options
<1>2. Served(server) \in Options /\ Own(Served(server)) \in Data
  BY <1>1, OwnTyped, ServedTyped
<1>3. 0 \in 0..MaxEdits /\ 0 \in 0..MaxSaves /\ 0 \in 0..MaxTroubles
  BY FormBounds
<1> QED
  BY <1>1, <1>2, <1>3 DEF FormInit, FormTypeOK

\* The end of a save leaves a form of the same kind.
LEMMA RebaseTyped ==
    ASSUME FormTypeOK, saving # NoSave, Rebase
    PROVE  values' \in Data /\ base' \in Data /\ seen' \in Data /\ touched' \subseteq Keys
BY DEF FormTypeOK, Rebase

\* The next option of a save, or its end, leaves the save and the form typed.
LEMMA ContinueTyped ==
    ASSUME FormTypeOK, NEW k \in Keys, saving # NoSave, k \in saving.left, Continue(k)
    PROVE  /\ values' \in Data /\ base' \in Data /\ seen' \in Data /\ touched' \subseteq Keys
           /\ saving' \in {NoSave} \cup [left : (SUBSET Keys) \ {{}}, data : Data,
                                         fresh : BOOLEAN]
<1>1. CASE saving.left = {k}
  BY <1>1, RebaseTyped DEF Continue
<1>2. CASE saving.left # {k}
  <2>1. saving \in [left : (SUBSET Keys) \ {{}}, data : Data, fresh : BOOLEAN]
    BY DEF FormTypeOK
  <2>2. saving' = [saving EXCEPT !.left = saving.left \ {k}] /\ UNCHANGED form
    BY <1>2 DEF Continue
  <2>3. saving.left \ {k} \in (SUBSET Keys) \ {{}}
    BY <1>2, <2>1
  <2>4. saving' \in [left : (SUBSET Keys) \ {{}}, data : Data, fresh : BOOLEAN]
    BY <2>1, <2>2, <2>3
  <2> QED
    BY <2>2, <2>4 DEF form, FormTypeOK
<1> QED
  BY <1>1, <1>2

\* Another fetch is asked for, or the one under way is joined.
LEMMA InvalidateTyped ==
    ASSUME FormTypeOK, Invalidate
    PROVE  /\ stale' \in BOOLEAN /\ joined' \in BOOLEAN
           /\ get' \in {NoGet} \cup [phase : {"sent"}]
                         \cup [phase : {"answered"}, options : Options]
<1>1. joined' = (joined \/ get.phase = "answered")
  BY DEF Invalidate
<1>2. joined' \in BOOLEAN
  BY <1>1
<1> QED
  BY <1>2 DEF FormTypeOK, Invalidate, Get

\* No step of the section leaves the types.
LEMMA FormTypeStep == FormTypeOK /\ [FormNext]_formVars => FormTypeOK'
<1> SUFFICES ASSUME FormTypeOK, [FormNext]_formVars PROVE FormTypeOK'
    OBVIOUS
<1> USE DEF FormTypeOK
<1>0. \A k \in Keys : saving # NoSave /\ k \in saving.left =>
          [server EXCEPT ![k] = saving.data[k]] \in Options
  BY DEF Options, Data
<1>b. others + faults < MaxTroubles =>
          others + 1 \in 0..MaxTroubles /\ faults + 1 \in 0..MaxTroubles
  BY FormBounds
<1>1. CASE Refocus
  BY <1>1 DEF Refocus, Get, form, counts
<1>2. CASE ServerAnswers
  BY <1>2, ServedTyped DEF ServerAnswers, form, counts
<1>3. CASE Fetched
  <2>1. get.options \in Options /\ Own(get.options) \in Data
    BY <1>3, AnsweredTyped, OwnTyped DEF Fetched
  <2>2. ResetValues(get.options) \in Data
    BY <2>1 DEF ResetValues, Options, Data
  <2>3. values' \in Data /\ base' \in Data /\ seen' \in Data /\ touched' \subseteq Keys
    <3>1. CASE Resets(get.options)
      BY <1>3, <2>1, <2>2, <3>1 DEF Fetched
    <3>2. CASE ~Resets(get.options)
      BY <1>3, <3>2 DEF Fetched, form
    <3> QED
      BY <3>1, <3>2
  <2> QED
    BY <1>3, <2>1, <2>3 DEF Fetched, counts
<1>4. CASE FetchFails
  BY <1>4, <1>b DEF FetchFails, form
<1>5. ASSUME NEW k \in Keys, NEW v \in Values, Edit(k, v) PROVE FormTypeOK'
  <2>1. edits' \in 0..MaxEdits
    BY <1>5, FormBounds DEF Edit
  <2>2. values' \in Data /\ touched' \subseteq Keys
    BY <1>5 DEF Edit, Data
  <2> QED
    BY <1>5, <2>1, <2>2 DEF Edit
<1>6. CASE handleReset
  BY <1>6 DEF handleReset, counts
<1>7. CASE Submit
  <2> DEFINE fresh_ == (get = NoGet /\ ~stale)
  <2>1. \E send \in Sendings \ {{}} :
            saving' = [left |-> send, data |-> values, fresh |-> fresh_]
    BY <1>7 DEF Submit
  <2>2. fresh_ \in BOOLEAN
    OBVIOUS
  <2> HIDE DEF fresh_
  <2>3. Sendings \subseteq SUBSET Keys
    BY OptionsAssumption DEF Sendings, ToSend, Differing, Kept, Forced
  <2>4. saving' \in [left : (SUBSET Keys) \ {{}}, data : Data, fresh : BOOLEAN]
    BY <2>1, <2>2, <2>3
  <2>5. saves' \in 0..MaxSaves
    BY <1>7, FormBounds DEF Submit
  <2> QED
    BY <1>7, <2>4, <2>5 DEF Submit, form
<1>8. ASSUME NEW k \in Keys, Stored(k) PROVE FormTypeOK'
  <2>1. server' \in Options
    BY <1>8, <1>0 DEF Stored
  <2>2. /\ values' \in Data /\ base' \in Data /\ seen' \in Data /\ touched' \subseteq Keys
        /\ saving' \in {NoSave} \cup [left : (SUBSET Keys) \ {{}}, data : Data,
                                      fresh : BOOLEAN]
    BY <1>8, ContinueTyped DEF Stored
  <2>3. /\ stale' \in BOOLEAN /\ joined' \in BOOLEAN
        /\ get' \in {NoGet} \cup [phase : {"sent"}]
                      \cup [phase : {"answered"}, options : Options]
    BY <1>8, InvalidateTyped DEF Stored
  <2> QED
    BY <1>8, <2>1, <2>2, <2>3 DEF Stored, counts
<1>9. ASSUME NEW k \in Keys, PutRefused(k) PROVE FormTypeOK'
  <2>1. /\ values' \in Data /\ base' \in Data /\ seen' \in Data /\ touched' \subseteq Keys
        /\ saving' \in {NoSave} \cup [left : (SUBSET Keys) \ {{}}, data : Data,
                                      fresh : BOOLEAN]
    <3>1. CASE Continue(k)
      BY <1>9, <3>1, ContinueTyped DEF PutRefused
    <3>2. CASE saving' = NoSave /\ UNCHANGED form
      BY <3>2 DEF form
    <3> QED
      BY <1>9, <3>1, <3>2 DEF PutRefused
  <2> QED
    BY <1>9, <1>b, <2>1 DEF PutRefused
<1>10. ASSUME NEW k \in Keys, PutFails(k) PROVE FormTypeOK'
  <2>1. server' \in Options
    BY <1>10, <1>0 DEF PutFails
  <2> QED
    BY <1>10, <1>b, <2>1 DEF PutFails, form
<1>11. ASSUME NEW k \in Keys \cup {Foreign}, NEW v \in Values, Other(k, v) PROVE FormTypeOK'
  <2>1. server' \in Options
    BY <1>11 DEF Other, Options
  <2> QED
    BY <1>11, <1>b, <2>1 DEF Other, form
<1>12. CASE UNCHANGED formVars
  BY <1>12 DEF formVars, form, counts
<1> QED
  BY <1>1, <1>2, <1>3, <1>4, <1>5, <1>6, <1>7, <1>8, <1>9, <1>10, <1>11, <1>12
     DEF FormNext, Answer

\* A request that fails or is refused, and another administrator, are events.
LEMMA EventsCount ==
    ASSUME FormTypeOK,
           \/ FetchFails
           \/ \E k \in Keys : PutRefused(k) \/ PutFails(k)
           \/ \E k \in Keys \cup {Foreign}, v \in Values : Other(k, v)
    PROVE  ~Uneventful'
BY FormBounds DEF FormTypeOK, Uneventful, FetchFails, PutRefused, PutFails, Other

\* Nothing that has happened is undone.
LEMMA EventsLast ==
    ASSUME FormTypeOK, [FormNext]_formVars, Uneventful'
    PROVE  Uneventful /\ section' = section
<1>1. ~FetchFails /\ ~(\E k \in Keys : PutRefused(k) \/ PutFails(k))
      /\ ~(\E k \in Keys \cup {Foreign}, v \in Values : Other(k, v))
  BY EventsCount
<1>2. ASSUME NEW k \in Keys, Stored(k) PROVE Uneventful /\ section' = section
  BY <1>2 DEF Stored, Invalidate, Uneventful, counts
<1>3. ASSUME NEW k \in Keys, NEW v \in Values, Edit(k, v) PROVE Uneventful /\ section' = section
  BY <1>3 DEF Edit, Uneventful
<1> QED
  BY <1>1, <1>2, <1>3
     DEF FormNext, Answer, formVars, counts, Uneventful, Refocus, ServerAnswers,
         Fetched, handleReset, Submit

\* A save that goes on still has a save under way.
LEMMA SaveGoesOn ==
    ASSUME FormTypeOK, NEW k \in Keys, saving # NoSave, k \in saving.left, saving.left # {k},
           Continue(k)
    PROVE  /\ saving' = [saving EXCEPT !.left = saving.left \ {k}]
           /\ saving' # NoSave
           /\ saving'.left = saving.left \ {k}
           /\ saving'.data = saving.data /\ saving'.fresh = saving.fresh
           /\ UNCHANGED form
<1>1. saving \in [left : (SUBSET Keys) \ {{}}, data : Data, fresh : BOOLEAN]
  BY DEF FormTypeOK
<1>2. saving' = [saving EXCEPT !.left = saving.left \ {k}] /\ UNCHANGED form
  BY DEF Continue
<1>3. saving' \in [left : SUBSET Keys, data : [Keys -> Values], fresh : BOOLEAN]
  BY <1>1, <1>2 DEF Data
<1> QED
  BY <1>1, <1>2, <1>3, NoSaveAssumption

\* No write, fetch or answer makes an unmarked copy wrong: a write marks the copy
\* and sends a new GET or joins one, and what is joined after its answer is an event.
LEMMA CacheStep ==
    ASSUME FormTypeOK, CacheSound, [FormNext]_formVars, Uneventful', Announced'
    PROVE  /\ ~stale' => cache' = Served(server)'
           /\ get'.phase = "answered" => get'.options = Served(server)'
<1>0. Uneventful /\ section' = section
  BY EventsLast
<1>f. SoundChoices(section)
  BY SectionFits
<1>s. server' = server => Served(server)' = Served(server)
  BY <1>0, ServedStays
<1> DEFINE Fine == /\ ~stale => cache = Served(server)
                   /\ get.phase = "answered" => get.options = Served(server)
<1>c. Announced => Fine
  BY <1>0 DEF CacheSound
<1>1. CASE Refocus
  BY <1>1, <1>0, <1>s, <1>c DEF Refocus, Get, Announced
<1>2. CASE ServerAnswers
  BY <1>2, <1>0, <1>s, <1>c DEF ServerAnswers, Announced
<1>3. CASE Fetched
  BY <1>3, <1>0, <1>s, <1>c DEF Fetched, Announced, NoGet
<1>4. ASSUME NEW k \in Keys, NEW v \in Values, Edit(k, v)
      PROVE  /\ ~stale' => cache' = Served(server)'
             /\ get'.phase = "answered" => get'.options = Served(server)'
  BY <1>4, <1>0, <1>s, <1>c DEF Edit, Announced
<1>5. CASE handleReset
  BY <1>5, <1>0, <1>s, <1>c DEF handleReset, Announced
<1>6. CASE Submit
  BY <1>6, <1>0, <1>s, <1>c DEF Submit, Announced
<1>7. ASSUME NEW k \in Keys, Stored(k)
      PROVE  /\ ~stale' => cache' = Served(server)'
             /\ get'.phase = "answered" => get'.options = Served(server)'
  <2>1. section.via = "useUpdateOption" \/ LastOfMutation(k)
    <3>1. CASE section.via = "useUpdateOption"
      BY <3>1
    <3>2. CASE section.via # "useUpdateOption"
      <4>1. saving' = NoSave
        BY <1>0, <3>2 DEF Announced
      <4>2. saving.left = {k}
        BY <1>7, <4>1, SaveGoesOn DEF Stored
      <4> QED
        BY <1>f, <3>2, <4>2 DEF LastOfMutation, SoundChoices, Section
    <3> QED
      BY <3>1, <3>2
  <2>2. Invalidate
    BY <1>7, <2>1 DEF Stored
  <2>3. stale' /\ get'.phase # "answered"
    BY <2>2 DEF Invalidate, Get, Uneventful
  <2> QED
    BY <2>3
<1>8. CASE UNCHANGED formVars
  BY <1>8, <1>s, <1>c DEF formVars, Announced
<1> QED
  BY <1>1, <1>2, <1>3, <1>4, <1>5, <1>6, <1>7, <1>8, EventsCount DEF FormNext, Answer

\* A fetch that resets nothing brings nothing new to a section that follows the copy.
LEMMA NoNews ==
    ASSUME FormTypeOK, SoundChoices(section), FieldsSound, NEW new \in Options,
           section.follow # "never", section.rebases # "form", ~Resets(new)
    PROVE  Own(new) = Own(cache)
<1>1. section.follow \in {"values", "each", "any"}
  BY DEF SoundChoices, Section
<1> QED
  BY <1>1 DEF Resets, FieldsSound

\* A save that ends with every option stored.
LEMMA LastStored ==
    ASSUME FormTypeOK, SaveSound, Uneventful, Promised, NEW k \in Keys, Stored(k),
           saving.left = {k}
    PROVE  /\ \A j \in Keys : server'[j] = saving.data[j] \/ LeftBlank(j)
           /\ section.secrets = "none" => Own(server') = saving.data
<1>1. saving \in [left : (SUBSET Keys) \ {{}}, data : Data, fresh : BOOLEAN]
  BY DEF FormTypeOK, Stored
<1>2. server' = [server EXCEPT ![k] = saving.data[k]]
  BY DEF Stored
<1>3. \A j \in Keys \ {k} : server[j] = saving.data[j] \/ LeftBlank(j)
  BY DEF SaveSound, Stored
<1>4. \A j \in Keys : server'[j] = saving.data[j] \/ LeftBlank(j)
  BY <1>2, <1>3 DEF FormTypeOK, Options
<1> QED
  BY <1>1, <1>4 DEF Own, Data, LeftBlank

\* The section's own copy follows the cached one through its effect, or becomes
\* what a save stored, when that save is over.
LEMMA BaseStep ==
    ASSUME FormTypeOK, CacheSound, BaseSound, FieldsSound, SaveSound, [FormNext]_formVars
    PROVE  BaseSound'
<1>f. SoundChoices(section)
  BY SectionFits
<1>s. section' = section
  BY DEF FormNext, Answer, Refocus, ServerAnswers, Fetched, FetchFails, Edit, handleReset,
     Submit, Stored, PutRefused, PutFails, Other, formVars
<1>1. ASSUME section.base = "ref", section.rebases = "nothing"
      PROVE  base' = Own(cache)'
  <2>0. base = Own(cache)
    BY <1>1 DEF BaseSound
  <2>1. CASE Fetched
    <3>1. get.options \in Options /\ cache' = get.options
      BY <2>1, AnsweredTyped DEF Fetched
    <3>2. CASE Resets(get.options)
      BY <1>1, <2>1, <3>1, <3>2 DEF Fetched
    <3>3. CASE ~Resets(get.options)
      <4>1. Own(get.options) = Own(cache)
        BY <1>1, <1>f, <3>1, <3>3, NoNews DEF SoundChoices
      <4>2. base' = base
        BY <2>1, <3>3 DEF Fetched, form
      <4> QED
        BY <2>0, <3>1, <4>1, <4>2
    <3> QED
      BY <3>2, <3>3
  <2>2. ASSUME NEW k \in Keys, saving # NoSave, Continue(k) PROVE base' = base
    BY <1>1, <2>2 DEF Continue, Rebase, form
  <2>3. ASSUME NEW k \in Keys, Answer(k) PROVE base' = base /\ cache' = cache
    BY <2>2, <2>3 DEF Answer, Stored, PutRefused, PutFails, form
  <2>4. ASSUME ~Fetched, ~(\E k \in Keys : Answer(k)) PROVE base' = base /\ cache' = cache
    BY <2>4 DEF FormNext, Refocus, ServerAnswers, FetchFails, Edit, handleReset,
       Submit, Other, formVars, form
  <2> QED
    BY <2>0, <2>1, <2>3, <2>4 DEF Own
<1>2. ASSUME section.base # "prop", section.rebases # "nothing", Uneventful', saving' = NoSave
      PROVE  base' = Own(server)'
  <2>0. /\ Uneventful /\ section.via = "useUpdateOption" /\ section.sends = "changed"
        /\ section.secrets = "none"
    BY <1>2, <1>f, EventsLast DEF SoundChoices
  <2>a. saving = NoSave => base = Own(server)
    BY <1>2, <2>0 DEF BaseSound
  <2>1. CASE Fetched
    <3>1. Own(get.options) = Own(server)
      <4>1. get.options = Served(server)
        BY <2>0, <2>1 DEF CacheSound, Announced, Fetched
      <4> QED
        BY <2>0, <4>1, ServedTyped DEF FormTypeOK
    <3>2. saving = NoSave /\ server' = server
      BY <1>2, <2>1 DEF Fetched
    <3>3. base' = base \/ base' = Own(server)
      BY <2>1, <3>1 DEF Fetched, form
    <3> QED
      BY <2>a, <3>2, <3>3 DEF Own
  <2>2. ASSUME NEW k \in Keys, Stored(k) PROVE base' = Own(server)'
    <3>1. saving.left = {k}
      BY <1>2, <2>2, SaveGoesOn DEF Stored
    <3>2. base' = saving.data
      BY <1>2, <2>2, <3>1 DEF Stored, Continue, Rebase
    <3>3. Promised
      BY <1>2, <2>0 DEF Promised
    <3>4. Own(server') = saving.data
      BY <2>0, <2>2, <3>1, <3>3, LastStored
    <3> QED
      BY <3>2, <3>4 DEF Own
  <2>3. CASE Submit
    <3>1. saving = NoSave /\ base' = base /\ server' = server
      BY <2>3 DEF Submit, form
    <3> QED
      BY <2>a, <3>1 DEF Own
  <2>4. ASSUME ~Fetched, ~Submit, ~(\E k \in Keys : Stored(k))
        PROVE  base' = base /\ server' = server /\ saving' = saving
    BY <1>2, <2>4, EventsCount DEF FormNext, Answer, Refocus, ServerAnswers, Edit,
       handleReset, formVars, form
  <2> QED
    BY <1>2, <2>a, <2>1, <2>2, <2>3, <2>4 DEF Own
<1> QED
  BY <1>s, <1>1, <1>2 DEF BaseSound

\* No step changes a field the user has not edited, but to reset it.
LEMMA FieldsStep ==
    ASSUME FormTypeOK, FieldsSound, [FormNext]_formVars
    PROVE  FieldsSound'
<1>f. SoundChoices(section)
  BY SectionFits
<1>s. section' = section
  BY DEF FormNext, Answer, Refocus, ServerAnswers, Fetched, FetchFails, Edit, handleReset,
     Submit, Stored, PutRefused, PutFails, Other, formVars
<1>1. CASE Fetched
  <2>0. get.options \in Options /\ cache' = get.options /\ Own(get.options) \in Data
        /\ \A k \in Keys : Own(get.options)[k] = get.options[k]
    BY <1>1, AnsweredTyped, OwnTyped DEF Fetched
  <2>c. \A k \in Keys : Own(cache)[k] = cache[k]
    BY OwnTyped DEF FormTypeOK
  <2>1. CASE Resets(get.options)
    <3>1. /\ values' = ResetValues(get.options) /\ seen' = Own(get.options)
          /\ touched' = touched \ ResetKeys(get.options)
          /\ base' = IF section.base = "ref" THEN Own(get.options) ELSE base
      BY <1>1, <2>1 DEF Fetched
    <3>2. section.follow # "never"
      BY <2>1 DEF Resets
    <3>3. ASSUME section.rebases # "form", NEW k \in Keys \ touched'
          PROVE  values'[k] = cache'[k]
      <4>1. CASE k \in ResetKeys(get.options)
        BY <2>0, <3>1, <4>1 DEF ResetValues
      <4>2. CASE k \notin ResetKeys(get.options)
        <5>1. values'[k] = values[k] /\ k \in Keys \ touched
          BY <3>1, <3>3, <4>2 DEF ResetValues
        <5>2. get.options[k] = cache[k]
          BY <3>3, <4>2 DEF ResetKeys
        <5> QED
          BY <2>0, <3>2, <3>3, <5>1, <5>2 DEF FieldsSound
      <4> QED
        BY <4>1, <4>2
    <3>4. ASSUME section.rebases = "form", NEW k \in Keys \ touched'
          PROVE  values'[k] = base'[k]
      <4>1. section.base = "ref" /\ section.follow = "values"
        BY <1>f, <3>2, <3>4 DEF SoundChoices
      <4>2. k \in ResetKeys(get.options)
        BY <3>4, <4>1 DEF ResetKeys
      <4> QED
        BY <2>0, <3>1, <4>1, <4>2 DEF ResetValues
    <3>5. seen' = Own(cache)'
      BY <2>0, <3>1 DEF Own
    <3> QED
      BY <1>s, <3>3, <3>4, <3>5 DEF FieldsSound
  <2>2. CASE ~Resets(get.options)
    <3>1. UNCHANGED form
      BY <1>1, <2>2 DEF Fetched
    <3>2. section.follow # "never" /\ section.rebases # "form" => Own(get.options) = Own(cache)
      BY <1>f, <2>0, <2>2, NoNews
    <3>3. Own(cache)' = Own(get.options)
      BY <2>0 DEF Own
    <3>4. section.follow = "values" /\ section.rebases # "form" => seen' = Own(cache)'
      BY <3>1, <3>2, <3>3 DEF FieldsSound, form
    <3>5. section.follow # "never" /\ section.rebases # "form" =>
              \A k \in Keys \ touched' : values'[k] = cache'[k]
      BY <2>0, <2>c, <3>1, <3>2 DEF FieldsSound, form
    <3>6. section.follow # "never" /\ section.rebases = "form" =>
              \A k \in Keys \ touched' : values'[k] = base'[k]
      BY <3>1 DEF FieldsSound, form
    <3> QED
      BY <1>s, <3>4, <3>5, <3>6 DEF FieldsSound
  <2> QED
    BY <2>1, <2>2
<1>2. ASSUME NEW k \in Keys, NEW v \in Values, Edit(k, v) PROVE FieldsSound'
  BY <1>2 DEF Edit, FieldsSound, FormTypeOK, Data, Own
<1>3. CASE handleReset
  BY <1>3 DEF handleReset, FieldsSound
<1>4. ASSUME NEW k \in Keys, Answer(k) PROVE FieldsSound'
  <2>1. CASE UNCHANGED form
    BY <1>4, <2>1 DEF Answer, Stored, PutRefused, PutFails, FieldsSound, form, Own
  <2>2. CASE Rebase
    <3>1. cache' = cache
      BY <1>4 DEF Answer, Stored, PutRefused, PutFails
    <3>2. CASE section.rebases = "form"
      BY <1>s, <2>2, <3>2 DEF Rebase, FieldsSound
    <3>3. CASE section.rebases # "form"
      BY <1>s, <2>2, <3>1, <3>3 DEF Rebase, FieldsSound, Own
    <3> QED
      BY <3>2, <3>3
  <2> QED
    BY <1>4, <2>1, <2>2 DEF Answer, Stored, PutRefused, PutFails, Continue
<1>5. ASSUME ~Fetched, ~handleReset, ~(\E k \in Keys : Answer(k)),
             ~(\E k \in Keys, v \in Values : Edit(k, v))
      PROVE  UNCHANGED <<form, cache, section>>
  BY <1>5 DEF FormNext, Refocus, ServerAnswers, FetchFails, Submit, Other, formVars
<1> QED
  BY <1>1, <1>2, <1>3, <1>4, <1>5 DEF FieldsSound, form, Own

\* Every PUT that is answered moves one option from what is left to what is stored,
\* and what a submission does not send is stored already.
LEMMA SaveStep ==
    ASSUME FormTypeOK, CacheSound, BaseSound, SaveSound, [FormNext]_formVars
    PROVE  SaveSound'
<1> SUFFICES ASSUME saving' # NoSave, Uneventful', Promised', NEW j \in Keys \ saving'.left
             PROVE  server'[j] = saving'.data[j] \/ LeftBlank(j)'
    BY DEF SaveSound
<1>0. Uneventful /\ section' = section
  BY EventsLast
<1>f. SoundChoices(section)
  BY SectionFits
<1>c. \A k \in Keys : Own(cache)[k] = cache[k] /\ Own(server)[k] = server[k]
  BY OwnTyped DEF FormTypeOK
<1>h. \A k \in Keys : Served(server)[k] = IF Hidden(k) THEN Blank ELSE server[k]
  BY ServedTyped DEF FormTypeOK
<1>1. CASE Submit
  <2>1. PICK send \in Sendings \ {{}} :
            saving' = [left |-> send, data |-> values, fresh |-> get = NoGet /\ ~stale]
    BY <1>1 DEF Submit
  <2> DEFINE fresh_ == (get = NoGet /\ ~stale)
  <2>2. saving' = [left |-> send, data |-> values, fresh |-> fresh_]
    BY <2>1
  <2> HIDE DEF fresh_
  <2>3. saving'.left = send /\ saving'.data = values /\ saving'.fresh = fresh_
    BY <2>2
  <2>4. section.sends # "one" /\ saving = NoSave /\ server' = server
    BY <1>0, <1>1 DEF Promised, Submit
  <2>5. send = ToSend
    BY <2>4 DEF Sendings
  <2>6. LeftBlank(j)' <=> j \in Secrets /\ section.secrets # "none" /\ values[j] = Blank
    BY <1>0, <2>3 DEF LeftBlank
  <2>7. CASE j \in Kept
    BY <1>f, <2>6, <2>7 DEF Kept, SoundChoices
  <2>8. CASE j \notin Kept
    <3>1. section.sends # "all" /\ values[j] = Base[j]
      BY <2>3, <2>5, <2>8 DEF ToSend, Differing
    <3>2. CASE section.base # "prop" /\ section.rebases # "nothing"
      BY <1>0, <1>c, <2>3, <2>4, <3>1, <3>2 DEF BaseSound, Base
    <3>3. CASE section.base = "prop" \/ section.rebases = "nothing"
      <4>1. Base[j] = cache[j]
        <5>1. section.base = "prop" \/ section.base = "ref"
          BY <1>f, <3>3 DEF SoundChoices, Section
        <5> QED
          BY <1>c, <3>3, <5>1 DEF BaseSound, Base
      <4>2. ~stale
        BY <1>0, <2>3, <3>1, <3>3 DEF Promised, fresh_
      <4>3. cache = Served(server)
        BY <1>0, <2>4, <4>2 DEF CacheSound, Announced
      <4>4. values[j] = IF Hidden(j) THEN Blank ELSE server[j]
        BY <1>h, <3>1, <4>1, <4>3
      <4> QED
        BY <2>3, <2>4, <2>6, <4>4 DEF Hidden
    <3> QED
      BY <3>2, <3>3
  <2> QED
    BY <2>7, <2>8
<1>2. ASSUME NEW k \in Keys, Stored(k) PROVE server'[j] = saving'.data[j] \/ LeftBlank(j)'
  <2>1. saving.left # {k}
    BY <1>2 DEF Stored, Continue
  <2>2. saving'.left = saving.left \ {k} /\ saving'.data = saving.data
        /\ saving'.fresh = saving.fresh
    BY <1>2, <2>1, SaveGoesOn DEF Stored
  <2>3. Promised
    BY <1>0, <2>2 DEF Promised
  <2>4. server' = [server EXCEPT ![k] = saving.data[k]]
    BY <1>2 DEF Stored
  <2>5. j # k => server[j] = saving.data[j] \/ LeftBlank(j)
    BY <1>0, <1>2, <2>2, <2>3 DEF SaveSound, Stored
  <2>6. LeftBlank(j)' <=> LeftBlank(j)
    BY <1>0, <2>2 DEF LeftBlank
  <2> QED
    BY <2>2, <2>4, <2>5, <2>6 DEF FormTypeOK, Options
<1>3. ASSUME ~Submit, ~(\E k \in Keys : Stored(k))
      PROVE  server' = server /\ saving' = saving
  BY <1>3, EventsCount DEF FormNext, Answer, Refocus, ServerAnswers, Fetched, Edit,
     handleReset, formVars
<1> QED
  BY <1>0, <1>1, <1>2, <1>3 DEF SaveSound, Promised, LeftBlank

\* In every reachable state of every section, the copy, what the section compares
\* with, its fields and its save hang together.
THEOREM FormInductive == FormSpec => []FormIInv
<1>1. FormInit => FormIInv
  <2> SUFFICES ASSUME FormInit PROVE FormIInv
      OBVIOUS
  <2>1. FormTypeOK
    BY FormTypeInit
  <2>2. /\ \A k \in Keys : Own(cache)[k] = cache[k]
        /\ section.secrets = "none" => Own(cache) = Own(server)
    BY <2>1, OwnTyped, ServedTyped DEF FormTypeOK, FormInit
  <2>f. SoundChoices(section)
    BY <2>1, SectionFits
  <2>3. CacheSound /\ SaveSound
    BY DEF FormInit, CacheSound, SaveSound, NoGet
  <2>4. BaseSound /\ FieldsSound
    BY <2>2, <2>f DEF FormInit, BaseSound, FieldsSound, SoundChoices
  <2> QED
    BY <2>1, <2>3, <2>4 DEF FormIInv
<1>2. FormIInv /\ [FormNext]_formVars => FormIInv'
  <2> SUFFICES ASSUME FormIInv, [FormNext]_formVars PROVE FormIInv'
      OBVIOUS
  <2> USE DEF FormIInv
  <2>1. FormTypeOK'
    BY FormTypeStep
  <2>2. CacheSound'
    BY CacheStep DEF CacheSound
  <2>3. BaseSound' /\ FieldsSound' /\ SaveSound'
    BY BaseStep, FieldsStep, SaveStep
  <2> QED
    BY <2>1, <2>2, <2>3
<1> QED
  BY <1>1, <1>2, PTL DEF FormSpec

\* For all the sections of the source and any options and values: useUpdateOption
\* keeps the cached copy right, and what a section compares with and shows agrees
\* with the server once everything has arrived.
THEOREM FormSafe == FormSpec => []FormInv
<1>1. FormIInv => FormInv
  <2> SUFFICES ASSUME FormIInv PROVE FormInv
      OBVIOUS
  <2> USE DEF FormIInv
  <2>f. SoundChoices(section)
    BY SectionFits
  <2>1. CacheCatchesUpUnlessJoined
    BY DEF CacheSound, CacheCatchesUpUnlessJoined, Quiet, Announced
  <2>c. /\ \A k \in Keys : Own(cache)[k] = cache[k]
        /\ section.secrets = "none" => Own(Served(server)) = Own(server)
    BY OwnTyped, ServedTyped DEF FormTypeOK
  <2>2. ASSUME Quiet, cache = Served(server), section.rebases = "nothing" \/ Uneventful
        PROVE  Base = Own(cache)
    <3>1. CASE section.base = "prop"
      BY <2>2, <3>1 DEF Base
    <3>2. CASE section.base # "prop" /\ section.rebases # "nothing"
      BY <2>c, <2>f, <2>2, <3>2 DEF Base, BaseSound, Quiet, SoundChoices
    <3>3. CASE section.base # "prop" /\ section.rebases = "nothing"
      BY <2>f, <2>2, <3>3 DEF Base, BaseSound, SoundChoices, Section
    <3> QED
      BY <3>1, <3>2, <3>3
  <2>3. ASSUME Quiet, cache = Served(server), section.rebases = "nothing" \/ Uneventful,
               section.follow # "never", touched = {}
        PROVE  values = Own(cache)
    <3>1. \A k \in Keys : values[k] = cache[k]
      <4>1. CASE section.rebases # "form"
        BY <2>3, <4>1 DEF FieldsSound
      <4>2. CASE section.rebases = "form"
        <5>1. base = Own(cache)
          BY <2>f, <2>2, <2>3, <4>2 DEF Base, SoundChoices
        <5> QED
          BY <2>c, <2>3, <4>2, <5>1 DEF FieldsSound
      <4> QED
        BY <4>1, <4>2
    <3> QED
      BY <3>1 DEF FormTypeOK, Data, Own
  <2>4. FormAgrees
    BY <2>2, <2>3 DEF FormAgrees
  <2> QED
    BY <2>1, <2>4 DEF FormInv
<1> QED
  BY <1>1, FormInductive, PTL

\* A submission that ends well has stored the whole form, also the options that it
\* did not send because they seemed unchanged, but for secrets that were left blank.
THEOREM SavesAreStored == FormSpec => SaveStores
<1> DEFINE StoresAll ==
      /\ saving # NoSave /\ saving' = NoSave
      /\ faults' = 0 /\ others' = 0 /\ ~joined
      /\ section.sends # "one"
      /\ \/ saving.fresh
         \/ section.rebases # "nothing" /\ section.base # "prop"
         \/ section.sends = "all"
      => \A k \in Keys : server'[k] = saving.data[k] \/ LeftBlank(k)
<1>1. FormIInv /\ [FormNext]_formVars => [StoresAll]_formVars
  <2> SUFFICES ASSUME FormIInv, FormNext, saving # NoSave, saving' = NoSave,
                      faults' = 0, others' = 0, ~joined, Promised
               PROVE  \A k \in Keys : server'[k] = saving.data[k] \/ LeftBlank(k)
      BY DEF Promised
  <2> USE DEF FormIInv
  <2>1. ASSUME NEW k \in Keys, PutRefused(k) \/ PutFails(k) PROVE FALSE
    BY <2>1, FormBounds DEF PutRefused, PutFails, FormTypeOK
  <2>2. PICK k \in Keys : Stored(k)
    BY <2>1 DEF FormNext, Answer, Refocus, ServerAnswers, Fetched, FetchFails, Edit,
       handleReset, Submit, Other
  <2>3. Uneventful
    BY <2>2 DEF Uneventful, Stored, counts
  <2>4. saving.left = {k}
    BY <2>2, SaveGoesOn DEF Stored
  <2> QED
    BY <2>2, <2>3, <2>4, LastStored
<1> QED
  BY <1>1, FormInductive, PTL DEF FormSpec, SaveStores

\* A section that follows the copy sends edited options only: it writes back nothing
\* that another administrator changed, but for the worker's key while its address
\* is blank.
THEOREM EditsAreSent == FormSpec => OnlyEditsAreSent
<1> DEFINE Edits ==
      /\ saving = NoSave /\ saving' # NoSave
      /\ section.follow # "never" /\ section.rebases # "base"
      /\ section.sends = "changed"
      => saving'.left \subseteq touched \cup Forced
<1>1. FormIInv /\ [FormNext]_formVars => [Edits]_formVars
  <2> SUFFICES ASSUME FormIInv, FormNext, saving = NoSave, saving' # NoSave,
                      section.follow # "never", section.rebases # "base",
                      section.sends = "changed"
               PROVE  saving'.left \subseteq touched \cup Forced
      OBVIOUS
  <2> USE DEF FormIInv
  <2>f. SoundChoices(section)
    BY SectionFits
  <2>1. Submit
    BY DEF FormNext, Answer, Refocus, ServerAnswers, Fetched, FetchFails, Edit,
       handleReset, Stored, PutRefused, PutFails, Other
  <2>2. saving'.left = ToSend
    BY <2>1 DEF Submit, Sendings
  <2>3. \A k \in Keys \ touched : values[k] = Base[k]
    <3>1. CASE section.rebases = "form"
      BY <2>f, <3>1 DEF FieldsSound, Base, SoundChoices
    <3>2. CASE section.rebases # "form"
      <4>1. \A k \in Keys : Own(cache)[k] = cache[k]
        BY OwnTyped DEF FormTypeOK
      <4>2. Base = Own(cache)
        BY <2>f, <3>2 DEF Base, BaseSound, SoundChoices, Section
      <4> QED
        BY <3>2, <4>1, <4>2 DEF FieldsSound
    <3> QED
      BY <3>1, <3>2
  <2> QED
    BY <2>2, <2>3 DEF ToSend, Differing
<1> QED
  BY <1>1, FormInductive, PTL DEF FormSpec, OnlyEditsAreSent

-----------------------------------------------------------------------------
(* The session                                                             *)

\* What self may hold for a tab.
SelfRequest ==
    {NoRequest} \cup [answer : Somebody, loud : BOOLEAN,
                      waiters : (SUBSET Waiters) \ {{}}]

\* An answer on its way names the user that requests claim to be, or nobody;
\* and nobody only if the session and that claim still disagree.
StillTrue(request, session, header) ==
    request # NoRequest =>
        /\ request.answer \in {Nobody, header}
        /\ request.answer = Nobody => ~Accepted(session, header)

\* Cookie, header, storage and every tab name one user or none, and so do the
\* answers on their way.
OneIdentity ==
    ~overlapped =>
        /\ cookie = Nobody \/ uid = Nobody \/ cookie = uid
        /\ savedUser \in {Nobody, uid}
        /\ \A t \in Tabs :
            /\ user[t] \in {Nobody, uid}
            /\ StillTrue(self[t], cookie, uid)
            /\ \A q \in Queries : queries[t][q] = "refused" => ~Accepted(cookie, uid)

\* The user in local storage is the user of some tab, so that a browser without
\* a user in any tab has none in storage either.
SavedIsShown == savedUser = Nobody \/ \E t \in Tabs : user[t] = savedUser

\* All of it is inductive together.
SessionIInv == SessionTypeOK /\ OneIdentity /\ SavedIsShown

\* Asking, whether it sends a request or joins one, gives a request.
LEMMA AskedTyped ==
    ASSUME NEW r \in SelfRequest, NEW w \in Waiters, NEW l \in BOOLEAN,
           NEW c \in Somebody, NEW h
    PROVE  Asked(r, w, l, c, h) \in SelfRequest \ {NoRequest}
<1>1. Nobody \in Somebody
  BY DEF Somebody
<1>2. CASE r = NoRequest
  <2> DEFINE a == IF Accepted(c, h) THEN c ELSE Nobody
  <2>1. a \in Somebody
    BY <1>1
  <2>2. Asked(r, w, l, c, h) = [answer |-> a, loud |-> l, waiters |-> {w}]
    BY <1>2 DEF Asked
  <2> HIDE DEF a
  <2>3. {w} \in (SUBSET Waiters) \ {{}}
    OBVIOUS
  <2> QED
    BY <2>1, <2>2, <2>3 DEF SelfRequest, NoRequest
<1>3. CASE r # NoRequest
  <2>1. r \in [answer : Somebody, loud : BOOLEAN, waiters : (SUBSET Waiters) \ {{}}]
    BY <1>3 DEF SelfRequest
  <2>2. Asked(r, w, l, c, h) = [r EXCEPT !.waiters = r.waiters \cup {w}]
    BY <1>3 DEF Asked
  <2>3. r.waiters \cup {w} \in (SUBSET Waiters) \ {{}}
    BY <2>1
  <2>4. [r EXCEPT !.waiters = r.waiters \cup {w}]
            \in [answer : Somebody, loud : BOOLEAN, waiters : (SUBSET Waiters) \ {{}}]
    BY <2>1, <2>3
  <2>5. [r EXCEPT !.waiters = r.waiters \cup {w}] # NoRequest
    BY <2>4 DEF NoRequest
  <2> QED
    BY <2>2, <2>4, <2>5 DEF SelfRequest
<1> QED
  BY <1>2, <1>3

\* Entering the signed-in part gives a page and a request.
LEMMA EnterTyped ==
    ASSUME SessionTypeOK, NEW t \in Tabs, NEW who, NEW trusted,
           NEW r \in SelfRequest, NEW c \in Somebody, NEW h
    PROVE  /\ Enter(t, who, trusted, r, c, h).page \in Pages
           /\ Enter(t, who, trusted, r, c, h).self \in SelfRequest
<1>1. page[t] \in Pages
  BY DEF SessionTypeOK
<1>2. "guard" \in Waiters /\ FALSE \in BOOLEAN
  BY DEF Waiters
<1>3. Asked(r, "guard", FALSE, c, h) \in SelfRequest
  BY <1>2, AskedTyped
<1> QED
  BY <1>1, <1>3 DEF Enter, Pages

\* An answer is true when it is asked for, and stays so for who joins.
LEMMA AskedTrue ==
    ASSUME NEW r \in SelfRequest, NEW w, NEW l, NEW c, NEW h, StillTrue(r, c, h)
    PROVE  StillTrue(Asked(r, w, l, c, h), c, h)
<1>1. CASE r = NoRequest
  <2> DEFINE a == IF Accepted(c, h) THEN c ELSE Nobody
  <2>1. Asked(r, w, l, c, h) = [answer |-> a, loud |-> l, waiters |-> {w}]
    BY <1>1 DEF Asked
  <2>2. a \in {Nobody, h} /\ (a = Nobody => ~Accepted(c, h))
    BY DEF Accepted
  <2> HIDE DEF a
  <2> QED
    BY <2>1, <2>2 DEF StillTrue
<1>2. CASE r # NoRequest
  <2>1. r \in [answer : Somebody, loud : BOOLEAN, waiters : (SUBSET Waiters) \ {{}}]
    BY <1>2 DEF SelfRequest
  <2>2. Asked(r, w, l, c, h).answer = r.answer
    BY <1>2, <2>1 DEF Asked
  <2> QED
    BY <1>2, <2>2 DEF StillTrue
<1> QED
  BY <1>1, <1>2

\* So is one asked for by the guard.
LEMMA EnterTrue ==
    ASSUME NEW t, NEW who, NEW trusted, NEW r \in SelfRequest, NEW c, NEW h,
           StillTrue(r, c, h)
    PROVE  StillTrue(Enter(t, who, trusted, r, c, h).self, c, h)
<1>1. StillTrue(Asked(r, "guard", FALSE, c, h), c, h)
  BY AskedTrue
<1> QED
  BY <1>1 DEF Enter

\* No request is true of any session.
LEMMA NoneTrue ==
    ASSUME NEW c, NEW h
    PROVE  StillTrue(NoRequest, c, h)
BY DEF StillTrue

\* The session starts well typed.
LEMMA SessionTypeInit == SessionInit => SessionTypeOK
<1> SUFFICES ASSUME SessionInit PROVE SessionTypeOK
    OBVIOUS
<1>1. 0 \in 0..MaxLogins /\ 0 \in 0..MaxMishaps
  BY SessionBounds
<1> QED
  BY <1>1 DEF SessionInit, SessionTypeOK, Somebody, Pages, NoQueries

\* A tab goes to a page of the site.
LEMMA GoesTyped ==
    ASSUME SessionTypeOK, NEW t \in Tabs, NEW there,
           there.page \in Pages, there.self \in SelfRequest, Goes(t, there)
    PROVE  /\ page' \in [Tabs -> Pages]
           /\ self' \in [Tabs -> SelfRequest]
BY DEF SessionTypeOK, Goes, SelfRequest

\* Links, pages that ask and sign-ins lead to pages, requests and users.
LEMMA SessionTypeMoves ==
    ASSUME SessionTypeOK, NEW t \in Tabs,
           \/ Visit(t) \/ VisitDesktop(t) \/ OAuthFails(t)
           \/ \E w \in Shown : FetchUser(t, w)
           \/ \E q \in Queries : Query(t, q)
    PROVE  SessionTypeOK'
<1> USE DEF SessionTypeOK
<1>0. self[t] \in SelfRequest /\ NoRequest \in SelfRequest
  BY DEF SelfRequest
<1>d. "desktop" \in Waiters /\ "oauth" \in Waiters /\ FALSE \in BOOLEAN
  BY DEF Waiters
<1>1. CASE Visit(t)
  <2> DEFINE there == Enter(t, user[t], verified[t], self[t], cookie, uid)
  <2>1. there.page \in Pages /\ there.self \in SelfRequest
    BY <1>0, EnterTyped
  <2>2. Goes(t, there)
    BY <1>1 DEF Visit
  <2> HIDE DEF there
  <2>3. page' \in [Tabs -> Pages] /\ self' \in [Tabs -> SelfRequest]
    BY <2>1, <2>2, GoesTyped
  <2> QED
    BY <1>1, <2>3 DEF Visit, browser, tally, SelfRequest
<1>2. CASE VisitDesktop(t)
  <2>1. Asked(self[t], "desktop", FALSE, cookie, uid) \in SelfRequest
    BY <1>0, <1>d, AskedTyped
  <2> DEFINE asked_ == Asked(self[t], "desktop", FALSE, cookie, uid)
  <2> DEFINE there == IF user[t] = Nobody
                      THEN [page |-> "sign-in", self |-> self[t]]
                      ELSE [page |-> page[t], self |-> asked_]
  <2>2. Goes(t, there)
    BY <1>2 DEF VisitDesktop
  <2> HIDE DEF asked_
  <2>3. there.page \in Pages /\ there.self \in SelfRequest
    BY <1>0, <2>1 DEF Pages, asked_
  <2> HIDE DEF there
  <2>4. page' \in [Tabs -> Pages] /\ self' \in [Tabs -> SelfRequest]
    BY <2>2, <2>3, GoesTyped
  <2> QED
    BY <1>2, <2>4 DEF VisitDesktop, browser, tally, SelfRequest
<1>3. CASE OAuthFails(t)
  <2>1. Asked(NoRequest, "oauth", FALSE, cookie, uid) \in SelfRequest
    BY <1>0, <1>d, AskedTyped
  <2>2. self' \in [Tabs -> SelfRequest]
    BY <1>3, <2>1 DEF OAuthFails, SelfRequest
  <2> QED
    BY <1>3, <2>2 DEF OAuthFails, browser, tally, SelfRequest
<1>4. ASSUME NEW w \in Shown, FetchUser(t, w) PROVE SessionTypeOK'
  <2>1. w \in Waiters /\ (w = "profile") \in BOOLEAN
    BY DEF Shown, Waiters
  <2> DEFINE loud_ == (w = "profile")
  <2>2. self' = [self EXCEPT ![t] = Asked(self[t], w, loud_, cookie, uid)]
    BY <1>4 DEF FetchUser
  <2> HIDE DEF loud_
  <2>3. Asked(self[t], w, loud_, cookie, uid) \in SelfRequest
    BY <1>0, <2>1, AskedTyped DEF loud_
  <2>4. self' \in [Tabs -> SelfRequest]
    BY <2>2, <2>3 DEF SelfRequest
  <2> QED
    BY <1>4, <2>4 DEF FetchUser, browser, tally, SelfRequest
<1>5. ASSUME NEW q \in Queries, Query(t, q) PROVE SessionTypeOK'
  <2>1. queries' \in [Tabs -> [Queries -> {"none", "accepted", "refused"}]]
    BY <1>5 DEF Query
  <2> QED
    BY <1>5, <2>1 DEF Query, browser, tally
<1> QED
  BY <1>1, <1>2, <1>3, <1>4, <1>5

\* Every way to sign in or out, in one step, in two or by a provider, leaves a
\* typed browser and typed tabs.
LEMMA SessionTypeSignIn ==
    ASSUME SessionTypeOK, NEW t \in Tabs,
           \/ \E u \in Users : Login(t, u) \/ LoginNeeds2FA(t, u) \/ OAuthCallback(t, u)
           \/ Login2FA(t) \/ StartOAuth(t) \/ SignOut(t)
    PROVE  SessionTypeOK'
<1> USE DEF SessionTypeOK
<1>0. self[t] \in SelfRequest /\ NoRequest \in SelfRequest
  BY DEF SelfRequest
<1>a. "login" \in Waiters /\ FALSE \in BOOLEAN
  BY DEF Waiters
<1>b. Nobody \in Somebody /\ Users \subseteq Somebody
  BY DEF Somebody
<1>c. NoQueries \in [Queries -> {"none", "accepted", "refused"}]
  BY DEF NoQueries
<1>d. "otp" \in Pages /\ "provider" \in Pages /\ "sign-in" \in Pages
  BY DEF Pages
<1>e. Counted(t) => logins' \in 0..MaxLogins /\ troubles' \in 0..MaxMishaps
                    /\ overlapped' \in BOOLEAN
  <2> SUFFICES ASSUME Counted(t)
               PROVE  logins' \in 0..MaxLogins /\ troubles' \in 0..MaxMishaps
                      /\ overlapped' \in BOOLEAN
      OBVIOUS
  <2>1. overlapped' = (overlapped \/ Overlaps(t) \/ user[t] # Nobody)
    BY Zenon DEF Counted
  <2>2. overlapped' \in BOOLEAN
    BY <2>1
  <2>3. logins' \in 0..MaxLogins /\ troubles' \in 0..MaxMishaps
    BY SessionBounds DEF Counted
  <2> QED
    BY <2>2, <2>3
<1>f. (overlapped' = (overlapped \/ Overlaps(t))) => overlapped' \in BOOLEAN
  OBVIOUS
<1>1. ASSUME NEW u \in Users, Login(t, u) PROVE SessionTypeOK'
  <2>1. u \in Somebody
    BY <1>b
  <2>2. Asked(self[t], "login", FALSE, u, u) \in SelfRequest
    BY <1>0, <1>a, <2>1, AskedTyped
  <2>3. self' \in [Tabs -> SelfRequest]
    BY <1>1, <2>2 DEF Login, SelfRequest
  <2> QED
    BY <1>1, <1>e, <2>1, <2>3 DEF Login, SelfRequest
<1>2. ASSUME NEW u \in Users, LoginNeeds2FA(t, u) PROVE SessionTypeOK'
  BY <1>2, <1>b, <1>d DEF LoginNeeds2FA, tally
<1>3. ASSUME NEW u \in Users, OAuthCallback(t, u) PROVE SessionTypeOK'
  <2>1. u \in Somebody
    BY <1>b
  <2> DEFINE there == Enter(t, u, FALSE, NoRequest, u, u)
  <2>2. there.page \in Pages /\ there.self \in SelfRequest
    BY <1>0, <2>1, EnterTyped
  <2>3. Goes(t, there)
    BY <1>3 DEF OAuthCallback
  <2> HIDE DEF there
  <2>4. page' \in [Tabs -> Pages] /\ self' \in [Tabs -> SelfRequest]
    BY <2>2, <2>3, GoesTyped
  <2> QED
    BY <1>3, <1>e, <2>1, <2>4 DEF OAuthCallback, SelfRequest
<1>4. CASE Login2FA(t)
  <2> DEFINE there == Enter(t, pending, verified[t], self[t], pending, pending)
  <2>2. there.page \in Pages /\ there.self \in SelfRequest
    BY <1>0, EnterTyped
  <2>3. Goes(t, there)
    BY <1>4 DEF Login2FA
  <2> HIDE DEF there
  <2>4. page' \in [Tabs -> Pages] /\ self' \in [Tabs -> SelfRequest]
    BY <2>2, <2>3, GoesTyped
  <2> QED
    BY <1>4, <1>b, <1>e, <2>4 DEF Login2FA, SelfRequest
<1>5. CASE StartOAuth(t)
  <2>1. self' \in [Tabs -> SelfRequest]
    BY <1>5, <1>0 DEF StartOAuth, SelfRequest
  <2> QED
    BY <1>5, <1>b, <1>c, <1>d, <1>f, <2>1 DEF StartOAuth, tally, SelfRequest
<1>6. CASE SignOut(t)
  <2>1. self' \in [Tabs -> SelfRequest]
    BY <1>6, <1>0 DEF SignOut, SelfRequest
  <2> QED
    BY <1>6, <1>b, <1>c, <1>d, <1>f, <2>1 DEF SignOut, tally, SelfRequest
<1> QED
  BY <1>1, <1>2, <1>3, <1>4, <1>5, <1>6

\* So does every answer, and every failure, of the requests in flight.
LEMMA SessionTypeAnswers ==
    ASSUME SessionTypeOK, NEW t \in Tabs,
           SelfAnswered(t) \/ SelfFails(t) \/ \E q \in Queries : QueryAnswered(t, q)
    PROVE  SessionTypeOK'
<1> USE DEF SessionTypeOK
<1>0. self[t] \in SelfRequest /\ NoRequest \in SelfRequest
  BY DEF SelfRequest
<1>b. Nobody \in Somebody
  BY DEF Somebody
<1>d. "desktop" \in Pages /\ "sign-in" \in Pages
  BY DEF Pages
<1>1. ASSUME self[t] # NoRequest, SelfKnown(t) PROVE SessionTypeOK'
  <2> DEFINE who == self[t].answer
             entered == Enter(t, who, verified'[t], NoRequest, cookie, uid')
             there == IF self[t].waiters \subseteq Shown
                      THEN [page |-> page[t], self |-> NoRequest]
                      ELSE IF "desktop" \in self[t].waiters
                      THEN [page |-> "desktop", self |-> NoRequest]
                      ELSE entered
  <2>1. who \in Somebody
    BY <1>1, <1>0 DEF SelfRequest
  <2>2. entered.page \in Pages /\ entered.self \in SelfRequest
    BY <1>0, EnterTyped
  <2>3. Goes(t, there)
    BY <1>1 DEF SelfKnown
  <2> HIDE DEF entered
  <2>4. there.page \in Pages /\ there.self \in SelfRequest
    BY <1>0, <1>d, <2>2
  <2> HIDE DEF there
  <2>5. page' \in [Tabs -> Pages] /\ self' \in [Tabs -> SelfRequest]
    BY <2>3, <2>4, GoesTyped
  <2>6. verified' = [verified EXCEPT ![t] = verified[t] \/ "guard" \in self[t].waiters]
    BY <1>1 DEF SelfKnown
  <2>7. verified' \in [Tabs -> BOOLEAN]
    BY <2>6
  <2>8. user' \in [Tabs -> Somebody] /\ savedUser' \in Somebody /\ uid' \in Somebody
    BY <1>1, <2>1 DEF SelfKnown
  <2> QED
    BY <1>1, <2>5, <2>7, <2>8 DEF SelfKnown, tally, SelfRequest
<1>2. ASSUME self[t] # NoRequest, NEW refused \in BOOLEAN, NotKnown(t, refused),
             logins' = logins, troubles' \in 0..MaxMishaps
      PROVE  SessionTypeOK'
  <2> DEFINE clears == \/ self[t].waiters \cap {"guard", "desktop"} # {}
                       \/ refused /\ self[t].loud
             who == IF clears THEN Nobody ELSE user[t]
             entered == Enter(t, who, verified[t], NoRequest, cookie, uid)
             there == CASE self[t].waiters \subseteq Shown -> [page |-> page[t], self |-> NoRequest]
                        [] "login" \in self[t].waiters -> entered
                        [] OTHER -> [page |-> "sign-in", self |-> NoRequest]
  <2>1. who \in Somebody
    BY <1>b
  <2>2. entered.page \in Pages /\ entered.self \in SelfRequest
    BY <1>0, EnterTyped
  <2>3. Goes(t, there)
    BY <1>2 DEF NotKnown
  <2>8. user' = [user EXCEPT ![t] = who] /\ savedUser' \in {Nobody, savedUser}
    BY <1>2 DEF NotKnown
  <2> HIDE DEF entered, who
  <2>4. there.page \in Pages /\ there.self \in SelfRequest
    BY <1>0, <1>d, <2>2
  <2> HIDE DEF there
  <2>5. page' \in [Tabs -> Pages] /\ self' \in [Tabs -> SelfRequest]
    BY <2>3, <2>4, GoesTyped
  <2>6. user' \in [Tabs -> Somebody] /\ savedUser' \in Somebody
    BY <2>1, <2>8, <1>b
  <2> QED
    BY <1>2, <2>5, <2>6 DEF NotKnown, SelfRequest
<1>3. ASSUME NEW q \in Queries, QueryAnswered(t, q) PROVE SessionTypeOK'
  <2>1. queries' \in [Tabs -> [Queries -> {"none", "accepted", "refused"}]]
    BY <1>3 DEF QueryAnswered
  <2>2. overlapped' \in BOOLEAN
    BY <1>3 DEF QueryAnswered
  <2> QED
    BY <1>3, <1>b, <1>d, <2>1, <2>2 DEF QueryAnswered, tally
<1>4. CASE SelfAnswered(t)
  <2>1. CASE SelfKnown(t)
    BY <1>4, <1>1, <2>1 DEF SelfAnswered
  <2>2. CASE SelfRefused(t)
    BY <1>2, <2>2 DEF SelfRefused, tally
  <2> QED
    BY <1>4, <2>1, <2>2 DEF SelfAnswered
<1>5. CASE SelfFails(t)
  <2>1. troubles' \in 0..MaxMishaps
    BY <1>5, SessionBounds DEF SelfFails
  <2> QED
    BY <1>2, <1>5, <2>1 DEF SelfFails
<1> QED
  BY <1>3, <1>4, <1>5

\* No step of the session leaves the types.
LEMMA SessionTypeStep == SessionTypeOK /\ [SessionNext]_sessionVars => SessionTypeOK'
<1> SUFFICES ASSUME SessionTypeOK, [SessionNext]_sessionVars PROVE SessionTypeOK'
    OBVIOUS
<1>1. ASSUME NEW t \in Tabs, Load(t) PROVE SessionTypeOK'
  <2>1. NoQueries \in [Queries -> {"none", "accepted", "refused"}] /\ "public" \in Pages
    BY DEF NoQueries, Pages
  <2> QED
    BY <1>1, <2>1 DEF Load, browser, tally, SessionTypeOK
<1>2. CASE Expire
  <2>1. Nobody \in Somebody /\ troubles' \in 0..MaxMishaps
    BY <1>2, SessionBounds DEF Expire, Somebody, SessionTypeOK
  <2> QED
    BY <1>2, <2>1 DEF Expire, tabs, SessionTypeOK
<1>3. CASE UNCHANGED sessionVars
  BY <1>3 DEF sessionVars, browser, tabs, tally, SessionTypeOK
<1> QED
  BY <1>1, <1>2, <1>3, SessionTypeMoves, SessionTypeSignIn, SessionTypeAnswers
     DEF SessionNext, Arrives

\* When nothing but requests changes, what has been asked for in between is true.
LEMMA IdentityKept ==
    ASSUME SessionTypeOK, SessionTypeOK', OneIdentity, SavedIsShown,
           UNCHANGED <<cookie, savedUser, uid, user, overlapped>>,
           ~overlapped =>
               \A t \in Tabs :
                   /\ StillTrue(self'[t], cookie, uid)
                   /\ \A q \in Queries :
                          queries'[t][q] = "refused" => ~Accepted(cookie, uid)
    PROVE  OneIdentity' /\ SavedIsShown'
BY DEF OneIdentity, SavedIsShown

\* One tab gets another request, the queries stay.
LEMMA OneRequest ==
    ASSUME SessionTypeOK, OneIdentity, NEW t \in Tabs, NEW r,
           self' = [self EXCEPT ![t] = r], queries' = queries,
           ~overlapped => StillTrue(r, cookie, uid)
    PROVE  ~overlapped =>
               \A o \in Tabs :
                   /\ StillTrue(self'[o], cookie, uid)
                   /\ \A q \in Queries :
                          queries'[o][q] = "refused" => ~Accepted(cookie, uid)
BY DEF OneIdentity, SessionTypeOK

\* Loading, links and new requests name no other user: what they ask for is asked
\* with the cookie and the header of that moment, which agree.
LEMMA IdentityMoves ==
    ASSUME SessionTypeOK, OneIdentity, SavedIsShown, NEW t \in Tabs,
           \/ Visit(t) \/ VisitDesktop(t) \/ OAuthFails(t)
           \/ \E w \in Shown : FetchUser(t, w)
           \/ \E q \in Queries : Query(t, q)
           \/ \E u \in Users : LoginNeeds2FA(t, u)
    PROVE  OneIdentity' /\ SavedIsShown'
<1>t. SessionTypeOK'
  BY SessionTypeMoves, SessionTypeSignIn
<1>0. self[t] \in SelfRequest /\ NoRequest \in SelfRequest
  BY DEF SelfRequest, SessionTypeOK
<1>s. ~overlapped => StillTrue(self[t], cookie, uid)
  BY DEF OneIdentity
<1>n. StillTrue(NoRequest, cookie, uid)
  BY NoneTrue
<1>1. CASE Visit(t)
  <2> DEFINE r == Enter(t, user[t], verified[t], self[t], cookie, uid).self
  <2>1. self' = [self EXCEPT ![t] = r] /\ queries' = queries
    BY <1>1 DEF Visit, Goes
  <2>2. ~overlapped => StillTrue(r, cookie, uid)
    BY <1>0, <1>s, EnterTrue
  <2>3. UNCHANGED <<cookie, savedUser, uid, user, overlapped>>
    BY <1>1 DEF Visit, browser
  <2> HIDE DEF r
  <2> QED
    BY <1>t, <2>1, <2>2, <2>3, OneRequest, IdentityKept
<1>2. CASE VisitDesktop(t)
  <2> DEFINE r == IF user[t] = Nobody THEN self[t]
                  ELSE Asked(self[t], "desktop", FALSE, cookie, uid)
  <2>1. self' = [self EXCEPT ![t] = r] /\ queries' = queries
    BY <1>2 DEF VisitDesktop, Goes
  <2>2. ~overlapped => StillTrue(r, cookie, uid)
    BY <1>0, <1>s, AskedTrue
  <2>3. UNCHANGED <<cookie, savedUser, uid, user, overlapped>>
    BY <1>2 DEF VisitDesktop, browser
  <2> HIDE DEF r
  <2> QED
    BY <1>t, <2>1, <2>2, <2>3, OneRequest, IdentityKept
<1>3. CASE OAuthFails(t)
  <2> DEFINE r == Asked(NoRequest, "oauth", FALSE, cookie, uid)
  <2>1. self' = [self EXCEPT ![t] = r] /\ queries' = queries
    BY <1>3 DEF OAuthFails
  <2>2. ~overlapped => StillTrue(r, cookie, uid)
    BY <1>0, <1>n, AskedTrue
  <2>3. UNCHANGED <<cookie, savedUser, uid, user, overlapped>>
    BY <1>3 DEF OAuthFails, browser
  <2> HIDE DEF r
  <2> QED
    BY <1>t, <2>1, <2>2, <2>3, OneRequest, IdentityKept
<1>4. ASSUME NEW w \in Shown, FetchUser(t, w) PROVE OneIdentity' /\ SavedIsShown'
  <2> DEFINE loud_ == (w = "profile")
             r == Asked(self[t], w, loud_, cookie, uid)
  <2>1. self' = [self EXCEPT ![t] = r] /\ queries' = queries
    BY <1>4 DEF FetchUser
  <2> HIDE DEF loud_
  <2>2. ~overlapped => StillTrue(r, cookie, uid)
    BY <1>0, <1>s, AskedTrue
  <2>3. UNCHANGED <<cookie, savedUser, uid, user, overlapped>>
    BY <1>4 DEF FetchUser, browser
  <2> HIDE DEF r
  <2> QED
    BY <1>t, <2>1, <2>2, <2>3, OneRequest, IdentityKept
<1>5. ASSUME NEW q \in Queries, Query(t, q) PROVE OneIdentity' /\ SavedIsShown'
  <2>1. UNCHANGED <<cookie, savedUser, uid, user, overlapped>> /\ self' = self
    BY <1>5 DEF Query, browser
  <2> DEFINE answer_ == IF Accepted(cookie, uid) THEN "accepted" ELSE "refused"
  <2>2. queries' = [queries EXCEPT ![t][q] = answer_]
    BY <1>5 DEF Query
  <2>3. answer_ = "refused" => ~Accepted(cookie, uid)
    OBVIOUS
  <2> HIDE DEF answer_
  <2>4. ASSUME NEW o \in Tabs, NEW p \in Queries, queries'[o][p] = "refused"
        PROVE  queries[o][p] = "refused" \/ ~Accepted(cookie, uid)
    BY <2>2, <2>3, <2>4 DEF SessionTypeOK
  <2>5. ~overlapped =>
               \A o \in Tabs :
                   /\ StillTrue(self'[o], cookie, uid)
                   /\ \A p \in Queries :
                          queries'[o][p] = "refused" => ~Accepted(cookie, uid)
    BY <2>1, <2>4 DEF OneIdentity
  <2> QED
    BY <1>t, <2>1, <2>5, IdentityKept
<1>6. ASSUME NEW u \in Users, LoginNeeds2FA(t, u) PROVE OneIdentity' /\ SavedIsShown'
  BY <1>6 DEF LoginNeeds2FA, tally, OneIdentity, SavedIsShown
<1> QED
  BY <1>1, <1>2, <1>3, <1>4, <1>5, <1>6

\* A sign-in or sign-out that nothing overlaps finds no request in flight, and
\* no user but its own tab's.
LEMMA NothingElse ==
    ASSUME SessionTypeOK, NEW t \in Tabs, ~Overlaps(t)
    PROVE  /\ \A o \in Tabs : /\ self[o] = NoRequest
                              /\ \A q \in Queries : queries[o][q] # "refused"
           /\ \A o \in Tabs \ {t} : user[o] = Nobody
BY DEF Overlaps, InFlight, NoQueries

\* After a sign-in as u that nothing overlaps, everything says u.
LEMMA IdentitySet ==
    ASSUME SessionTypeOK, OneIdentity, NEW t \in Tabs, NEW u \in Users, Counted(t),
           cookie' = u, uid' = u,
           \/ savedUser' = savedUser /\ user' = user
           \/ savedUser' = u /\ user' = [user EXCEPT ![t] = u],
           SavedIsShown, NEW r, self' = [self EXCEPT ![t] = r], queries' = queries,
           ~Overlaps(t) => StillTrue(r, u, u)
    PROVE  OneIdentity' /\ SavedIsShown'
<1>1. SavedIsShown'
  BY DEF SavedIsShown, SessionTypeOK
<1>2. ASSUME ~overlapped' PROVE OneIdentity'
  <2>1. ~overlapped /\ ~Overlaps(t) /\ user[t] = Nobody
    BY <1>2 DEF Counted
  <2>2. \A o \in Tabs : /\ self[o] = NoRequest
                        /\ \A q \in Queries : queries[o][q] # "refused"
                        /\ user[o] = Nobody
    BY <2>1, NothingElse
  <2>3. savedUser = Nobody
    BY <2>2 DEF SavedIsShown
  <2>4. \A o \in Tabs : user'[o] \in {Nobody, u}
    BY <2>2 DEF SessionTypeOK
  <2>5. \A o \in Tabs : StillTrue(self'[o], u, u)
    <3> TAKE o \in Tabs
    <3>1. CASE o = t
      BY <2>1, <3>1 DEF SessionTypeOK
    <3>2. CASE o # t
      BY <2>2, <3>2, NoneTrue DEF SessionTypeOK
    <3> QED
      BY <3>1, <3>2
  <2> QED
    BY <2>2, <2>3, <2>4, <2>5 DEF OneIdentity
<1> QED
  BY <1>1, <1>2 DEF OneIdentity

\* A sign-in that nothing overlaps makes everything say the new user, and one that
\* something overlaps is not spoken about.
LEMMA IdentitySignIn ==
    ASSUME SessionTypeOK, OneIdentity, SavedIsShown, NEW t \in Tabs,
           (\E u \in Users : Login(t, u) \/ OAuthCallback(t, u)) \/ Login2FA(t)
    PROVE  OneIdentity' /\ SavedIsShown'
<1>1. ASSUME NEW u \in Users, Login(t, u) PROVE OneIdentity' /\ SavedIsShown'
  <2> DEFINE r == Asked(self[t], "login", FALSE, u, u)
  <2>1. self' = [self EXCEPT ![t] = r] /\ queries' = queries /\ Counted(t)
        /\ cookie' = u /\ uid' = u /\ savedUser' = savedUser /\ user' = user
    BY <1>1 DEF Login
  <2>2. ASSUME ~Overlaps(t) PROVE StillTrue(r, u, u)
    <3>1. self[t] = NoRequest
      BY <2>2, NothingElse
    <3>2. NoRequest \in SelfRequest
      BY DEF SelfRequest
    <3> QED
      BY <3>1, <3>2, NoneTrue, AskedTrue
  <2> HIDE DEF r
  <2> QED
    BY <2>1, <2>2, IdentitySet
<1>2. ASSUME NEW u \in Users, OAuthCallback(t, u) PROVE OneIdentity' /\ SavedIsShown'
  <2> DEFINE r == Enter(t, u, FALSE, NoRequest, u, u).self
  <2>1. self' = [self EXCEPT ![t] = r] /\ queries' = queries /\ Counted(t)
        /\ cookie' = u /\ uid' = u /\ savedUser' = u /\ user' = [user EXCEPT ![t] = u]
    BY <1>2 DEF OAuthCallback, Goes
  <2>2. StillTrue(r, u, u)
    <3>2. NoRequest \in SelfRequest
      BY DEF SelfRequest
    <3> QED
      BY <3>2, NoneTrue, EnterTrue
  <2> HIDE DEF r
  <2> QED
    BY <2>1, <2>2, IdentitySet
<1>3. CASE Login2FA(t)
  <2> DEFINE u == pending
             r == Enter(t, u, verified[t], self[t], u, u).self
  <2>1. self' = [self EXCEPT ![t] = r] /\ queries' = queries /\ Counted(t)
        /\ cookie' = u /\ uid' = u /\ savedUser' = u /\ user' = [user EXCEPT ![t] = u]
    BY <1>3 DEF Login2FA, Goes
  <2>2. ASSUME ~Overlaps(t) PROVE StillTrue(r, u, u)
    <3>1. self[t] = NoRequest
      BY <2>2, NothingElse
    <3>2. self[t] \in SelfRequest
      BY <3>1 DEF SelfRequest
    <3>3. StillTrue(self[t], u, u)
      BY <3>1, NoneTrue
    <3> QED
      BY <3>2, <3>3, EnterTrue
  <2>3. u \in Users
    BY <1>3 DEF Login2FA, SessionTypeOK, Somebody
  <2> HIDE DEF r, u
  <2> QED
    BY <2>1, <2>2, <2>3, IdentitySet
<1> QED
  BY <1>1, <1>2, <1>3

\* Signing out, and going to a provider to sign in, leave no user anywhere in this
\* tab; an expired session leaves the others' claims as they are.
LEMMA IdentitySignOut ==
    ASSUME SessionTypeOK, OneIdentity, SavedIsShown, NEW t \in Tabs,
           SignOut(t) \/ StartOAuth(t)
    PROVE  OneIdentity' /\ SavedIsShown'
<1>1. /\ cookie' \in {Nobody, cookie} /\ savedUser' = Nobody /\ uid' \in {Nobody, uid}
      /\ user' = [user EXCEPT ![t] = Nobody]
      /\ self' = [self EXCEPT ![t] = NoRequest]
      /\ queries' = [queries EXCEPT ![t] = NoQueries]
      /\ overlapped' = (overlapped \/ Overlaps(t))
  BY DEF SignOut, StartOAuth
<1>2. ASSUME ~overlapped' PROVE OneIdentity'
  <2>1. ~overlapped /\ ~Overlaps(t)
    BY <1>1, <1>2
  <2>2. \A o \in Tabs : self'[o] = NoRequest /\ user'[o] = Nobody
    BY <1>1, <2>1, NothingElse DEF SessionTypeOK
  <2>3. \A o \in Tabs, q \in Queries : queries'[o][q] # "refused"
    <3> TAKE o \in Tabs, q \in Queries
    <3>1. CASE o = t
      BY <1>1, <3>1 DEF SessionTypeOK, NoQueries
    <3>2. CASE o # t
      BY <1>1, <2>1, <3>2, NothingElse DEF SessionTypeOK
    <3> QED
      BY <3>1, <3>2
  <2>4. cookie' = Nobody \/ uid' = Nobody \/ cookie' = uid'
    BY <1>1, <2>1 DEF OneIdentity
  <2>5. \A o \in Tabs : StillTrue(self'[o], cookie', uid')
    BY <2>2, NoneTrue
  <2> QED
    BY <1>1, <2>2, <2>3, <2>4, <2>5 DEF OneIdentity
<1> QED
  BY <1>1, <1>2 DEF OneIdentity, SavedIsShown

\* An answer arrives.
LEMMA IdentityAnswers ==
    ASSUME SessionTypeOK, OneIdentity, SavedIsShown, NEW t \in Tabs,
           SelfAnswered(t) \/ SelfFails(t) \/ \E q \in Queries : QueryAnswered(t, q)
    PROVE  OneIdentity' /\ SavedIsShown'
<1>0. self[t] \in SelfRequest /\ NoRequest \in SelfRequest
  BY DEF SelfRequest, SessionTypeOK
<1>1. ASSUME self[t] # NoRequest, SelfKnown(t) PROVE OneIdentity' /\ SavedIsShown'
  <2> DEFINE who == self[t].answer
             r == (IF self[t].waiters \subseteq Shown THEN NoRequest
                   ELSE IF "desktop" \in self[t].waiters THEN NoRequest
                   ELSE Enter(t, who, verified'[t], NoRequest, cookie, uid').self)
  <2>1. self' = [self EXCEPT ![t] = r]
    BY <1>1 DEF SelfKnown, Goes
  <2>2. StillTrue(r, cookie, uid')
    <3>1. StillTrue(NoRequest, cookie, uid')
      BY NoneTrue
    <3>2. StillTrue(Enter(t, who, verified'[t], NoRequest, cookie, uid').self, cookie, uid')
      BY <1>0, <3>1, EnterTrue
    <3> QED
      BY <3>1, <3>2
  <2>3. /\ who # Nobody /\ UNCHANGED <<cookie, queries, overlapped>>
        /\ uid' \in {uid, who}
        /\ \/ user' = user /\ savedUser' = savedUser
           \/ user' = [user EXCEPT ![t] = who] /\ savedUser' = who
    BY <1>1 DEF SelfKnown
  <2>4. ~overlapped => who = uid
    BY <1>1, <2>3 DEF OneIdentity, StillTrue
  <2> HIDE DEF who, r
  <2>5. SavedIsShown'
    BY <2>3 DEF SavedIsShown, SessionTypeOK
  <2>6. ASSUME ~overlapped PROVE OneIdentity'
    <3>1. uid' = uid
      BY <2>3, <2>4, <2>6
    <3>2. \A o \in Tabs : StillTrue(self'[o], cookie, uid)
      BY <2>1, <2>2, <2>6, <3>1 DEF OneIdentity, SessionTypeOK
    <3>3. \A o \in Tabs : user'[o] \in {Nobody, uid}
      BY <2>3, <2>4, <2>6 DEF OneIdentity, SessionTypeOK
    <3> QED
      BY <2>3, <2>4, <2>6, <3>1, <3>2, <3>3 DEF OneIdentity
  <2> QED
    BY <2>3, <2>5, <2>6 DEF OneIdentity
<1>2. ASSUME NEW refused \in BOOLEAN, NotKnown(t, refused) PROVE OneIdentity' /\ SavedIsShown'
  <2> DEFINE clears == \/ self[t].waiters \cap {"guard", "desktop"} # {}
                       \/ refused /\ self[t].loud
             who == IF clears THEN Nobody ELSE user[t]
             r == CASE self[t].waiters \subseteq Shown -> NoRequest
                    [] "login" \in self[t].waiters ->
                           Enter(t, who, verified[t], NoRequest, cookie, uid).self
                    [] OTHER -> NoRequest
  <2>1. self' = [self EXCEPT ![t] = r]
    BY <1>2 DEF NotKnown, Goes
  <2>2. /\ UNCHANGED <<cookie, uid, queries, overlapped>>
        /\ \/ user' = [user EXCEPT ![t] = Nobody] /\ savedUser' = Nobody
           \/ user' = [user EXCEPT ![t] = user[t]] /\ savedUser' = savedUser
    BY <1>2 DEF NotKnown
  <2> HIDE DEF who
  <2>3. StillTrue(r, cookie, uid)
    <3>1. StillTrue(NoRequest, cookie, uid)
      BY NoneTrue
    <3>2. StillTrue(Enter(t, who, verified[t], NoRequest, cookie, uid).self, cookie, uid)
      BY <1>0, <3>1, EnterTrue
    <3> QED
      BY <3>1, <3>2
  <2> HIDE DEF r
  <2>4. SavedIsShown'
    BY <2>2 DEF SavedIsShown, SessionTypeOK
  <2>5. OneIdentity'
    BY <2>1, <2>2, <2>3 DEF OneIdentity, SessionTypeOK
  <2> QED
    BY <2>4, <2>5
<1>3. ASSUME NEW q \in Queries, QueryAnswered(t, q) PROVE OneIdentity' /\ SavedIsShown'
  <2>1. /\ queries' = [queries EXCEPT ![t][q] = "none"]
        /\ UNCHANGED <<cookie, uid, self>>
        /\ overlapped => overlapped'
        /\ \/ user' = user /\ savedUser' = savedUser
           \/ user' = [user EXCEPT ![t] = Nobody] /\ savedUser' = Nobody
    BY <1>3 DEF QueryAnswered
  <2>2. \A o \in Tabs, p \in Queries : queries'[o][p] = "refused" => queries[o][p] = "refused"
    BY <2>1 DEF SessionTypeOK
  <2> QED
    BY <2>1, <2>2 DEF OneIdentity, SavedIsShown, SessionTypeOK
<1> QED
  BY <1>1, <1>2, <1>3 DEF SelfAnswered, SelfRefused, SelfFails

\* No step of the session makes cookie, storage, header and tabs disagree.
LEMMA IdentityStep ==
    SessionTypeOK /\ OneIdentity /\ SavedIsShown /\ [SessionNext]_sessionVars
        => OneIdentity' /\ SavedIsShown'
<1> SUFFICES ASSUME SessionTypeOK, OneIdentity, SavedIsShown, [SessionNext]_sessionVars
             PROVE  OneIdentity' /\ SavedIsShown'
    OBVIOUS
<1>1. ASSUME NEW t \in Tabs, Load(t) PROVE OneIdentity' /\ SavedIsShown'
  <2>1. \A o \in Tabs, q \in Queries : queries'[o][q] = "refused" => queries[o][q] = "refused"
    BY <1>1 DEF Load, NoQueries, SessionTypeOK
  <2>2. \A o \in Tabs : self'[o] = self[o] \/ StillTrue(self'[o], cookie, uid)
    BY <1>1, NoneTrue DEF Load, SessionTypeOK
  <2>3. user' = [user EXCEPT ![t] = savedUser] /\ UNCHANGED <<browser, overlapped>>
    BY <1>1 DEF Load
  <2> QED
    BY <2>1, <2>2, <2>3 DEF browser, OneIdentity, SavedIsShown, SessionTypeOK
<1>2. CASE Expire
  <2>1. cookie' = Nobody /\ UNCHANGED <<savedUser, uid, tabs, overlapped>>
    BY <1>2 DEF Expire
  <2>2. ~Accepted(cookie', uid)
    BY <2>1 DEF Accepted
  <2> QED
    BY <2>1, <2>2 DEF tabs, OneIdentity, SavedIsShown, StillTrue
<1>3. CASE UNCHANGED sessionVars
  BY <1>3 DEF sessionVars, browser, tabs, tally, OneIdentity, SavedIsShown
<1> QED
  BY <1>1, <1>2, <1>3, IdentityMoves, IdentitySignIn, IdentitySignOut, IdentityAnswers
     DEF SessionNext, Arrives

\* In every reachable state of any number of tabs, users and queries, whatever the
\* number of sign-ins and failures, one user is named everywhere, by what is
\* stored, shown and on its way.
THEOREM SessionInductive == SessionSpec => []SessionIInv
<1>1. SessionInit => SessionIInv
  <2> SUFFICES ASSUME SessionInit PROVE SessionIInv
      OBVIOUS
  <2>1. SessionTypeOK
    BY SessionTypeInit
  <2>2. OneIdentity /\ SavedIsShown
    BY DEF SessionInit, OneIdentity, SavedIsShown, StillTrue, NoQueries
  <2> QED
    BY <2>1, <2>2 DEF SessionIInv
<1>2. SessionIInv /\ [SessionNext]_sessionVars => SessionIInv'
  BY SessionTypeStep, IdentityStep DEF SessionIInv
<1> QED
  BY <1>1, <1>2, PTL DEF SessionSpec

\* Through every way to sign in and out (auth-store, use-auth-redirect, the route
\* guard, the interceptor of lib/api.ts) the store, the cookie, the header and the
\* stored user agree, unless sign-ins, users and requests overlap.
THEOREM SessionSafe == SessionSpec => []SessionInv
<1>1. SessionIInv => SessionInv
  <2> SUFFICES ASSUME SessionIInv PROVE SessionInv
      OBVIOUS
  <2>1. IdentityAgrees
    BY UsersAssumption DEF SessionIInv, OneIdentity, IdentityAgrees
  <2>2. StorageAgrees
    BY DEF SessionIInv, OneIdentity, StorageAgrees
  <2> QED
    BY <2>1, <2>2 DEF SessionIInv, SessionInv
<1> QED
  BY <1>1, SessionInductive, PTL

\* An answer makes a tab forget its user, whether it answers a validation by the
\* route guard or the desktop page, the profile or a query (NotKnown of getSelf's
\* callers, the query cache's onError), only if the server does not accept the
\* session for the user the header names.
THEOREM ForgottenWhenExpired == SessionSpec => ForgottenOnlyIfExpiredAlone
<1> DEFINE Forgotten ==
      \A t \in Tabs :
          Arrives(t) /\ user[t] # Nobody /\ user'[t] = Nobody /\ ~overlapped
          => ~Accepted(cookie, uid)
<1>1. SessionIInv => Forgotten
  <2> SUFFICES ASSUME SessionIInv, NEW t \in Tabs, Arrives(t), ~overlapped,
                      user[t] # Nobody, user'[t] = Nobody
               PROVE  ~Accepted(cookie, uid)
      OBVIOUS
  <2> USE DEF SessionIInv
  <2>1. CASE SelfKnown(t)
    BY <2>1 DEF SelfKnown, SessionTypeOK
  <2>2. CASE SelfRefused(t)
    BY <2>2 DEF SelfRefused, OneIdentity, StillTrue
  <2>3. ASSUME NEW q \in Queries, QueryAnswered(t, q)
        PROVE  ~Accepted(cookie, uid)
    <3>1. queries[t][q] = "refused"
      BY <2>3 DEF QueryAnswered
    <3> QED
      BY <3>1 DEF OneIdentity
  <2> QED
    BY <2>1, <2>2, <2>3 DEF Arrives, SelfAnswered
<1> QED
  BY <1>1, SessionInductive, PTL DEF SessionSpec, ForgottenOnlyIfExpiredAlone

-----------------------------------------------------------------------------
(* The desktop shell                                                       *)

\* A server that runs is the one the shell holds, so that before-quit finds it;
\* a pending kill timer and an ended shell go back to a request to quit.
ProcessInv ==
    /\ serverProcess = "running" => held
    /\ killing => asked
    /\ exited => asked /\ serverProcess # "running"

\* A request that ends has been counted in attempt, and starts at most two
\* others: what is still due or out is paid for by the attempts made.
ProbesPaid ==
    /\ probes.due + 2 * probes.out <= attempt + 1
    /\ ProbesBounded

\* No window is open while the shell starts, unless one was opened early, and
\* the tray icon, which opens windows, comes with the end of the start.
WindowInv ==
    /\ tray => phase # "starting"
    /\ phase = "starting" /\ ~early => Live = {}
    /\ OneWindow

\* All of it is inductive together.
ShellIInv == ShellTypeOK /\ ProcessInv /\ ProbesPaid /\ WindowInv /\ CrashIsReported

USE ShellAssumption

\* The shell starts well typed.
LEMMA ShellTypeInit == ShellInit => ShellTypeOK
<1> SUFFICES ASSUME ShellInit PROVE ShellTypeOK
    OBVIOUS
<1>1. held \in BOOLEAN /\ isDev \in BOOLEAN
  BY Zenon DEF ShellInit
<1> QED
  BY <1>1 DEF ShellInit, ShellTypeOK

\* No handler of the shell leaves the types.
LEMMA ShellTypeStep == ShellTypeOK /\ [ShellNext]_shellVars => ShellTypeOK'
<1> SUFFICES ASSUME ShellTypeOK, [ShellNext]_shellVars PROVE ShellTypeOK'
    OBVIOUS
<1> USE DEF ShellTypeOK
<1>a. CASE UserCloses
  BY <1>a DEF UserCloses, Close, Live, startup, process, ending
<1>b. CASE TrayShows
  BY <1>b DEF TrayShows, createWindow, Live, startup, process, ending
<1>c. CASE TrayHides
  BY <1>c DEF TrayHides, Live, startup, process, ending
<1>d. CASE Activate
  BY <1>d DEF Activate, createWindow, Live, startup, process, ending
<1>e. CASE tryConnect
  BY <1>e DEF tryConnect, process, display, ending
<1>f. CASE Answered
  <2>1. CASE phase = "starting"
    BY <1>f, <2>1 DEF Answered, createWindow, process, ending
  <2>2. CASE phase # "starting"
    BY <1>f, <2>2 DEF Answered, process, display, ending
  <2> QED
    BY <2>1, <2>2
<1>g. CASE Refused \/ TimesOut
  BY <1>g DEF Refused, TimesOut, Failed, Reject, process, display, ending
<1>h. CASE SpawnFails
  BY <1>h DEF SpawnFails, display, ending
<1>i. ASSUME NEW how \in {"done", "crashed"}, ServerCloses(how) PROVE ShellTypeOK'
  BY <1>i DEF ServerCloses, Close, Live, startup
<1>j. CASE TrayQuits \/ SystemQuits
  BY <1>j DEF TrayQuits, SystemQuits, quit, Live, startup, process
<1>k. ASSUME NEW box \in {"startup", "crash"}, Answers(box) PROVE ShellTypeOK'
  BY <1>k DEF Answers, quit, Live, startup, process
<1>l. CASE KillTimer
  BY <1>l DEF KillTimer, startup, display
<1>m. CASE UNCHANGED shellVars
  BY <1>m DEF shellVars
<1> QED
  BY <1>a, <1>b, <1>c, <1>d, <1>e, <1>f, <1>g, <1>h, <1>i, <1>j, <1>k, <1>l, <1>m DEF ShellNext

(* The server *)

\* Every way the server or the shell ends keeps the shell's hold on the server.
LEMMA ProcessStep == ShellTypeOK /\ ProcessInv /\ [ShellNext]_shellVars => ProcessInv'
<1> SUFFICES ASSUME ShellTypeOK, ProcessInv, [ShellNext]_shellVars PROVE ProcessInv'
    OBVIOUS
<1> USE DEF ShellTypeOK, ProcessInv
<1>0. UNCHANGED <<serverProcess, held, killing, asked, exited>> => ProcessInv'
  <2> SUFFICES ASSUME UNCHANGED <<serverProcess, held, killing, asked, exited>> PROVE ProcessInv'
      OBVIOUS
  <2>1. serverProcess' = serverProcess /\ held' = held /\ killing' = killing /\ asked' = asked /\ exited' = exited
    OBVIOUS
  <2>2. (serverProcess = "running" => held)'
    BY <2>1
  <2>3. (killing => asked)'
    BY <2>1
  <2>4. (exited => asked /\ serverProcess # "running")'
    BY <2>1
  <2> QED
    BY <2>2, <2>3, <2>4
<1>1. CASE UserCloses \/ TrayShows \/ TrayHides \/ Activate
  BY <1>0, <1>1 DEF UserCloses, TrayShows, TrayHides, Activate, process, ending
<1>2. CASE tryConnect \/ Answered \/ Refused \/ TimesOut
  BY <1>0, <1>2 DEF tryConnect, Answered, Refused, TimesOut, Failed, process, ending
<1>3. CASE SpawnFails
  BY <1>3 DEF SpawnFails, ending
<1>4. ASSUME NEW how \in {"done", "crashed"}, ServerCloses(how) PROVE ProcessInv'
  BY <1>4 DEF ServerCloses
<1>5. CASE TrayQuits \/ SystemQuits
  BY <1>5 DEF TrayQuits, SystemQuits, quit, process
<1>6. ASSUME NEW box \in {"startup", "crash"}, Answers(box) PROVE ProcessInv'
  BY <1>6 DEF Answers, quit, process
<1>7. CASE KillTimer
  BY <1>7 DEF KillTimer
<1>8. CASE UNCHANGED shellVars
  BY <1>8 DEF shellVars
<1> QED
  BY <1>1, <1>2, <1>3, <1>4, <1>5, <1>6, <1>7, <1>8 DEF ShellNext

\* A crash opens its message box, and whoever closes the box asks to quit.
LEMMA CrashStep == ShellTypeOK /\ CrashIsReported /\ [ShellNext]_shellVars => CrashIsReported'
<1> SUFFICES ASSUME ShellTypeOK, CrashIsReported, [ShellNext]_shellVars PROVE CrashIsReported'
    OBVIOUS
<1> USE DEF ShellTypeOK, CrashIsReported
<1>1. CASE UserCloses \/ TrayShows \/ TrayHides \/ Activate
  BY <1>1 DEF UserCloses, TrayShows, TrayHides, Activate, process, ending
<1>2. CASE tryConnect \/ Answered \/ Refused \/ TimesOut
  BY <1>2 DEF tryConnect, Answered, Refused, TimesOut, Failed, Reject, process, ending
<1>3. CASE SpawnFails
  BY <1>3 DEF SpawnFails, ending
<1>4. ASSUME NEW how \in {"done", "crashed"}, ServerCloses(how) PROVE CrashIsReported'
  BY <1>4 DEF ServerCloses
<1>5. CASE TrayQuits \/ SystemQuits
  BY <1>5 DEF TrayQuits, SystemQuits, quit, process
<1>6. ASSUME NEW box \in {"startup", "crash"}, Answers(box) PROVE CrashIsReported'
  BY <1>6 DEF Answers, quit, process
<1>7. CASE KillTimer
  BY <1>7 DEF KillTimer
<1>8. CASE UNCHANGED shellVars
  BY <1>8 DEF shellVars
<1> QED
  BY <1>1, <1>2, <1>3, <1>4, <1>5, <1>6, <1>7, <1>8 DEF ShellNext

(* Probes *)

\* A request that ends pays for the two it may start.
LEMMA FailedPays ==
    ASSUME ShellTypeOK, ProbesPaid, NEW again \in {1, 2}, Failed(again)
    PROVE  ProbesPaid'
<1> USE DEF ShellTypeOK
<1>1. probes.out > 0 /\ attempt' = attempt
  BY DEF Failed
<1>2. CASE attempt >= MaxRetries
  <2>1. probes' = [probes EXCEPT !.out = probes.out - 1]
    BY <1>2 DEF Failed
  <2>2. probes'.due = probes.due /\ probes'.out = probes.out - 1
    BY <2>1
  <2> QED
    BY <1>1, <2>2 DEF ProbesPaid, ProbesBounded
<1>3. CASE ~(attempt >= MaxRetries)
  <2>1. probes'.due = probes.due + again /\ probes'.out = probes.out - 1
    BY <1>3 DEF Failed
  <2> QED
    BY <1>1, <1>3, <2>1 DEF ProbesPaid, ProbesBounded
<1> QED
  BY <1>2, <1>3

\* No order of answers, errors and timeouts overruns the number of probes.
LEMMA ProbesStep == ShellTypeOK /\ ProbesPaid /\ [ShellNext]_shellVars => ProbesPaid'
<1> SUFFICES ASSUME ShellTypeOK, ProbesPaid, [ShellNext]_shellVars PROVE ProbesPaid'
    OBVIOUS
<1>1. CASE UNCHANGED <<attempt, probes>>
  BY <1>1 DEF ProbesPaid, ProbesBounded
<1>2. CASE tryConnect
  <2>1. attempt' = attempt + 1 /\ probes'.due = probes.due - 1 /\ probes'.out = probes.out + 1
    BY <1>2 DEF tryConnect
  <2> QED
    BY <2>1 DEF ProbesPaid, ProbesBounded, ShellTypeOK
<1>3. CASE Answered
  <2>1. attempt' = attempt /\ probes' = [probes EXCEPT !.out = probes.out - 1]
    BY <1>3 DEF Answered
  <2>2. probes'.due = probes.due /\ probes'.out = probes.out - 1
    BY <2>1 DEF ShellTypeOK
  <2> QED
    BY <2>1, <2>2 DEF ProbesPaid, ProbesBounded, ShellTypeOK
<1>4. CASE Refused
  BY <1>4, FailedPays DEF Refused
<1>5. CASE TimesOut
  BY <1>5, FailedPays DEF TimesOut
<1>6. CASE UserCloses \/ TrayShows \/ TrayHides \/ Activate \/ SpawnFails
           \/ TrayQuits \/ SystemQuits \/ KillTimer \/ UNCHANGED shellVars
  BY <1>1, <1>6 DEF UserCloses, TrayShows, TrayHides, Activate, SpawnFails,
     TrayQuits, SystemQuits, KillTimer, startup, shellVars
<1>7. ASSUME NEW how \in {"done", "crashed"}, ServerCloses(how) PROVE ProbesPaid'
  BY <1>1, <1>7 DEF ServerCloses, startup
<1>8. ASSUME NEW box \in {"startup", "crash"}, Answers(box) PROVE ProbesPaid'
  BY <1>1, <1>8 DEF Answers, startup
<1> QED
  BY <1>2, <1>3, <1>4, <1>5, <1>6, <1>7, <1>8 DEF ShellNext

(* Windows *)

\* A window is created only where none was open: it is then the only one.
LEMMA CreatedAlone ==
    ASSUME ShellTypeOK, NEW first \in BOOLEAN, createWindow(first), Live = {}
    PROVE  Live' \subseteq {main'}
BY DEF createWindow, Live, ShellTypeOK

\* Hiding and closing windows opens none.
LEMMA CloseOpensNone ==
    ASSUME ShellTypeOK, NEW w \in Live, Close(w), Live \subseteq {main}
    PROVE  Live' \subseteq {main'} /\ Live' \subseteq Live
BY DEF Close, Live, ShellTypeOK

\* Asking the application to quit opens no window.
LEMMA QuitOpensNone ==
    ASSUME ShellTypeOK, NEW flag \in BOOLEAN, quit(flag), Live \subseteq {main}
    PROVE  Live' \subseteq {main'} /\ Live' \subseteq Live
BY DEF quit, Live, ShellTypeOK

\* Clicks, the dock, the end of the start and the server keep at most one window.
LEMMA WindowStep == ShellTypeOK /\ WindowInv /\ [ShellNext]_shellVars => WindowInv'
<1> SUFFICES ASSUME ShellTypeOK, WindowInv, [ShellNext]_shellVars PROVE WindowInv'
    OBVIOUS
<1> USE DEF WindowInv, OneWindow
<1>0. \A w \in Live : Close(w) /\ UNCHANGED <<tray, phase, early>> => WindowInv'
  BY CloseOpensNone DEF ShellTypeOK
<1>1. CASE UserCloses
  BY <1>1, <1>0 DEF UserCloses, startup
<1>2. CASE TrayShows
  <2>1. CASE main = NoWindow /\ createWindow(FALSE)
    <3>1. ~early => Live = {}
      BY <2>1 DEF Live
    <3>2. early' = early
      BY <2>1 DEF createWindow, ShellTypeOK
    <3> QED
      BY <1>2, <2>1, <3>1, <3>2, CreatedAlone DEF TrayShows, startup, ShellTypeOK
  <2>2. CASE main \in Live /\ windows' = [windows EXCEPT ![main] = "visible"]
             /\ UNCHANGED <<main, early>>
    BY <1>2, <2>2 DEF TrayShows, startup, Live, ShellTypeOK
  <2> QED
    BY <1>2, <2>1, <2>2 DEF TrayShows
<1>3. CASE TrayHides
  BY <1>3 DEF TrayHides, startup, Live, ShellTypeOK
<1>4. CASE Activate
  <2>1. createWindow(phase = "starting") /\ Live = {}
    BY <1>4 DEF Activate
  <2>2. Live' \subseteq {main'}
    BY <2>1, CreatedAlone
  <2>3. phase = "starting" => early'
    BY <2>1 DEF createWindow
  <2> QED
    BY <1>4, <2>2, <2>3 DEF Activate, startup
<1>5. CASE Answered
  <2>1. CASE phase = "starting"
    <3>1. phase' = "resolved" /\ createWindow(FALSE)
      BY <1>5, <2>1 DEF Answered
    <3>2. early' = early
      BY <3>1 DEF createWindow, ShellTypeOK
    <3> QED
      BY <2>1, <3>1, <3>2, CreatedAlone
  <2>2. CASE phase # "starting"
    BY <1>5, <2>2 DEF Answered, display, Live
  <2> QED
    BY <2>1, <2>2
<1>6. CASE tryConnect \/ Refused \/ TimesOut \/ SpawnFails \/ KillTimer \/ UNCHANGED shellVars
  <2>1. UNCHANGED <<windows, main, early, tray>> /\ (phase' = "starting" => phase = "starting")
    BY <1>6 DEF tryConnect, Refused, TimesOut, Failed, Reject, SpawnFails, KillTimer,
       display, startup, shellVars
  <2> QED
    BY <2>1, <1>6 DEF Live, tryConnect, Refused, TimesOut, Failed, Reject, SpawnFails,
       KillTimer, startup, shellVars
<1>7. ASSUME NEW how \in {"done", "crashed"}, ServerCloses(how) PROVE WindowInv'
  <2>1. UNCHANGED <<tray, phase, early>>
    BY <1>7 DEF ServerCloses, startup
  <2>2. \/ UNCHANGED <<windows, main>>
        \/ main \in Live /\ Close(main)
    BY <1>7 DEF ServerCloses
  <2> QED
    BY <2>1, <2>2, <1>0 DEF Live
<1>8. ASSUME NEW flag \in BOOLEAN, quit(flag), UNCHANGED <<tray, phase, early>> PROVE WindowInv'
  BY <1>8, QuitOpensNone DEF ShellTypeOK
<1>9. CASE TrayQuits \/ SystemQuits
  BY <1>9, <1>8 DEF TrayQuits, SystemQuits, startup, ShellTypeOK
<1>10. ASSUME NEW box \in {"startup", "crash"}, Answers(box) PROVE WindowInv'
  BY <1>10, <1>8 DEF Answers, startup, ShellTypeOK
<1> QED
  BY <1>1, <1>2, <1>3, <1>4, <1>5, <1>6, <1>7, <1>9, <1>10 DEF ShellNext

\* The inductive invariant holds in every reachable state of the shell.
THEOREM ShellInductive == ShellSpec => []ShellIInv
<1>1. ShellInit => ShellIInv
  <2> SUFFICES ASSUME ShellInit PROVE ShellIInv
      OBVIOUS
  <2>1. ShellTypeOK
    BY ShellTypeInit
  <2>2. ProcessInv
    BY DEF ShellInit, ProcessInv
  <2>3. ProbesPaid
    BY DEF ShellInit, ProbesPaid, ProbesBounded
  <2>4. WindowInv /\ CrashIsReported
    BY DEF ShellInit, WindowInv, OneWindow, CrashIsReported, Live
  <2> QED
    BY <2>1, <2>2, <2>3, <2>4 DEF ShellIInv
<1>2. ShellIInv /\ [ShellNext]_shellVars => ShellIInv'
  BY ShellTypeStep, ProcessStep, CrashStep, ProbesStep, WindowStep DEF ShellIInv
<1> QED
  BY <1>1, <1>2, PTL DEF ShellSpec

\* Whatever the number of windows and of attempts, the shell leaves no server
\* behind, ends only if somebody asked it to, has at most one window unless one
\* was opened before the server answered, and stops probing the port.
THEOREM ShellSafe == ShellSpec => []ShellInv
<1>1. ShellIInv => ShellInv
  BY DEF ShellIInv, ShellInv, ProcessInv, ProbesPaid, WindowInv, NoOrphanServer, ExitsOnlyIfAsked
<1> QED
  BY <1>1, ShellInductive, PTL

\* A crash of the server is on the screen until somebody asks the shell to quit.
THEOREM CrashReported == ShellSpec => []CrashIsReported
<1>1. ShellIInv => CrashIsReported
  BY DEF ShellIInv
<1> QED
  BY <1>1, ShellInductive, PTL
=============================================================================
