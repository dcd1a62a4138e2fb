------------------------------ MODULE AskFlume ------------------------------
(***************************************************************************)
(* Questions in a chat about the failed statistics (DataFlowStatistics).   *)
(* A proxy talks to the user and does the steps of DialogFlow; the flume   *)
(* in the process of the flows has a client that calls the proxy in a      *)
(* loop, a sender that polls FlowCase and sends the one shared context     *)
(* into one of four channels, and a receiver with a handler for each.  No  *)
(* lock guards the context: the turn goes around with the question.        *)
(*                                                                         *)
(*   client -> proxy -> GetQuery -> FlowCase -> a sending goroutine        *)
(*     -> handler -> Upsert -> client                                      *)
(*                                                                         *)
(* All elements the two exchange have Id 0, and there is one at a time.    *)
(* What their Data is about is a question, and whether it is its topic or  *)
(* rows of the database.  Close is never set: the proxy has no element     *)
(* named "Done".  A proxy with the chat's web server gives no answer: the  *)
(* channel of the answers is never made.                                   *)
(***************************************************************************)
EXTENDS DataFlowStatistics, Sequences

CONSTANTS
  Questions,    \* bound: what users ask
  Answerable,   \* those that DialogFlow maps to "DataFlowState"
  EventLength,  \* of chatEvents (30)
  NoQuestion

ASSUME AskAssumption ==
  Answerable \subseteq Questions /\ NoQuestion \notin Questions /\ EventLength \in Nat \ {0}

VARIABLES
  manual,    \* IsManualInteractionEnabled
  asked,     \* where each question is
  chatEvents,\* the channel
  flumeClient, \* where its client is
  element,   \* Flumeworld.DetailedElements
  reply,     \* what the proxy answered
  query,     \* askFlumeContext.Query
  flowCase,  \* FlowCase
  sender,    \* the FlowCase it has acted on and not yet reset
  sending,   \* channels into which a goroutine is sending
  receiver,  \* does it listen, or wait at Upsert?
  eaten,     \* history: a FlowCase was reset unread
  latest     \* history: the question taken last

proxyVars == <<manual, asked, chatEvents>>
flumeVars == <<flumeClient, element, reply, query, flowCase, sender, sending, receiver>>
chatVars  == <<proxyVars, flumeVars, eaten, latest>>

\* The element of the flume and the answer of the proxy to it: the case in which
\* the flume acts on that answer.
Case == [get |-> "GChatQuery", DialogFlow |-> "DFQuery",
         DialogFlowResponse |-> "DFAnswer", GChatResponse |-> "GChatAnswer"]
Cases == {Case[n] : n \in DOMAIN Case}
NoCase  == ""
Element(n, q, r) == [name |-> n, about |-> q, rows |-> r]
GetMessage == Element("get", NoQuestion, FALSE)
NoReply == [name |-> NoCase, about |-> NoQuestion]

ChatInit ==
  /\ manual \in BOOLEAN /\ asked = [q \in Questions |-> "new"] /\ chatEvents = <<>>
  /\ flumeClient = "call" /\ element = GetMessage /\ reply = NoReply
  /\ query = NoQuestion /\ flowCase = NoCase /\ sender = NoCase /\ sending = {}
  /\ receiver = "listen" /\ eaten = FALSE /\ latest = NoQuestion

-----------------------------------------------------------------------------
\* The flume is not started again with its process.
SessionEnds ==
  /\ flumeClient' = "ended" /\ receiver' = "listen"
  /\ flowCase' = NoCase /\ sender' = NoCase /\ sending' = {}
  /\ UNCHANGED <<proxyVars, element, reply, query, eaten, latest>>

(* The users. *)

\* The web server's handler: a goroutine sends the event, and the request waits
\* for any answer, which never comes.
Post(q) ==
  /\ ~manual /\ asked[q] = "new"
  /\ asked' = [asked EXCEPT ![q] = "posted"]
  /\ UNCHANGED <<statVars, manual, chatEvents, flumeVars, eaten, latest>>

PubChatEvent(q) ==
  /\ asked[q] = "posted" /\ Len(chatEvents) < EventLength
  /\ chatEvents' = Append(chatEvents, q) /\ asked' = [asked EXCEPT ![q] = "queued"]
  /\ UNCHANGED <<statVars, manual, flumeVars, eaten, latest>>

-----------------------------------------------------------------------------
(* The client and the proxy. *)

Answers(n, q) == reply' = [name |-> n, about |-> q] /\ flumeClient' = "query"

UpsertElements ==
  /\ flumeClient = "call" /\ flumeClient' = "proxy"
  /\ UNCHANGED <<statVars, proxyVars, element, reply, query, flowCase, sender, sending, receiver, eaten, latest>>

\* "Get Message": the proxy waits for what the user types, or for an event.
getUserInput(q) ==
  /\ flumeClient = "proxy" /\ element.name = "get"
  /\ \/ manual /\ asked[q] = "new" /\ UNCHANGED chatEvents
     \/ ~manual /\ chatEvents # <<>> /\ q = Head(chatEvents) /\ chatEvents' = Tail(chatEvents)
  /\ asked' = [asked EXCEPT ![q] = "taken"] /\ latest' = q
  /\ Answers("GChatQuery", q)
  /\ UNCHANGED <<statVars, manual, element, query, flowCase, sender, sending, receiver, eaten>>

\* "DialogFlow" and "DialogFlowResponse": the text is replaced by a topic, or
\* by a sentence about the topic.
ProcessDF ==
  /\ flumeClient = "proxy" /\ element.name \in {"DialogFlow", "DialogFlowResponse"}
  /\ Answers(Case[element.name], element.about)
  /\ UNCHANGED <<statVars, proxyVars, element, query, flowCase, sender, sending, receiver, eaten, latest>>

\* One line for each row: none without rows, and none that a request waits for.
ProcessGChatAnswer ==
  /\ flumeClient = "proxy" /\ element.name = "GChatResponse"
  /\ asked' = [asked EXCEPT ![element.about] =
                  IF ~element.rows THEN "empty" ELSE IF manual THEN "answered" ELSE "parked"]
  /\ Answers("GChatAnswer", element.about)
  /\ UNCHANGED <<statVars, manual, chatEvents, element, query, flowCase, sender, sending, receiver, eaten, latest>>

\* A call that fails ends the client, and with it every question.
UpsertFails ==
  /\ flumeClient = "proxy" /\ Breaks /\ flumeClient' = "ended"
  /\ UNCHANGED <<up, tableVars, saved, flush, tree, pull, reports, pulls, told, excused>>
  /\ UNCHANGED <<proxyVars, element, reply, query, flowCase, sender, sending, receiver, eaten, latest>>

\* Mutant of Announced: a message is passed on when its Alias is set.
WithAlias(n) == IF n \in {"DFQuery", "DFAnswer"} THEN n ELSE flowCase
\* The FlowCase GetQuery leaves.
Announced(n) == n

GetQuery ==
  /\ flumeClient = "query" /\ flumeClient' = "wait"
  /\ query' = reply.about /\ flowCase' = Announced(reply.name)
  /\ UNCHANGED <<statVars, proxyVars, element, reply, sender, sending, receiver, eaten, latest>>

-----------------------------------------------------------------------------
(* The sender and the receiver. *)

\* The sender starts a goroutine and then resets FlowCase, unguarded: what was
\* stored in between is gone.
SendCase ==
  /\ sender = NoCase /\ flowCase # NoCase
  /\ sending' = sending \cup {flowCase} /\ sender' = flowCase
  /\ UNCHANGED <<statVars, proxyVars, flumeClient, element, reply, query, flowCase, receiver, eaten, latest>>

\* Mutant of Reset: FlowCase stays as it is.
NotReset == flowCase
Reset == NoCase

ResetCase ==
  /\ sender # NoCase /\ sender' = NoCase
  /\ flowCase' = Reset /\ eaten' = (eaten \/ flowCase \notin {sender, NoCase})
  /\ UNCHANGED <<statVars, proxyVars, flumeClient, element, reply, query, sending, receiver, latest>>

\* The receiver takes what a goroutine sends, and its handler runs to Upsert.
Receives(c) ==
  /\ receiver = "listen" /\ c \in sending
  /\ sending' = sending \ {c} /\ receiver' = "upsert"
  /\ UNCHANGED <<proxyVars, flumeClient, reply, query, flowCase, sender, eaten, latest>>

handleGChatQuery ==
  /\ Receives("GChatQuery") /\ element' = Element("DialogFlow", query, element.rows)
  /\ UNCHANGED statVars

\* ProcessAskFlumeEventMapper selects the failed statistics; it has no answer,
\* and no response, for any other topic, and the handler uses the response.
FailedRows == \E s \in Stats : Failed(s) /\ rows[s] # NoRow
handleDFQuery ==
  /\ query \in Answerable /\ Receives("DFQuery")
  /\ element' = Element("DialogFlowResponse", element.about, FailedRows)
  /\ UNCHANGED statVars
NoResponse ==
  /\ receiver = "listen" /\ "DFQuery" \in sending /\ query \notin Answerable
  /\ Dies /\ SessionEnds

handleDFAnswer ==
  /\ Receives("DFAnswer") /\ element' = Element("GChatResponse", element.about, element.rows)
  /\ UNCHANGED statVars
handleGchatAnswer ==
  /\ Receives("GChatAnswer") /\ element' = GetMessage
  /\ UNCHANGED statVars

\* The receiver gives the turn back to the client.
Upsert ==
  /\ receiver = "upsert" /\ flumeClient = "wait"
  /\ receiver' = "listen" /\ flumeClient' = "call"
  /\ UNCHANGED <<statVars, proxyVars, element, reply, query, flowCase, sender, sending, eaten, latest>>

-----------------------------------------------------------------------------
Statistics == StatNext /\ IF up' THEN UNCHANGED chatVars ELSE SessionEnds

Client   == UpsertElements \/ GetQuery \/ ProcessDF \/ ProcessGChatAnswer
Sender   == SendCase \/ ResetCase
Receiver == handleGChatQuery \/ handleDFQuery \/ handleDFAnswer \/ handleGchatAnswer
            \/ NoResponse \/ Upsert

ChatNext ==
  \/ Client \/ UpsertFails \/ Sender \/ Receiver
  \/ \E q \in Questions : Post(q) \/ PubChatEvent(q) \/ getUserInput(q)

\* Its goroutines go on, and the proxy answers; users ask or do not.
Goroutine(g) ==
  \/ g = "client" /\ Client
  \/ g = "sender" /\ Sender
  \/ g = "receiver" /\ Receiver

AskTypeOK ==
  /\ StatTypeOK
  /\ manual \in BOOLEAN /\ chatEvents \in Seq(Questions) /\ Len(chatEvents) <= EventLength
  /\ asked \in [Questions -> {"new", "posted", "queued", "taken", "answered", "empty", "parked"}]
  /\ flumeClient \in {"call", "proxy", "query", "wait", "ended"}
  /\ element \in [name : DOMAIN Case, about : Questions \cup {NoQuestion}, rows : BOOLEAN]
  /\ reply \in [name : Cases \cup {NoCase}, about : Questions \cup {NoQuestion}]
  /\ query \in Questions \cup {NoQuestion} /\ latest \in Questions \cup {NoQuestion}
  /\ flowCase \in Cases \cup {NoCase} /\ sender \in Cases \cup {NoCase}
  /\ sending \subseteq Cases /\ receiver \in {"listen", "upsert"} /\ eaten \in BOOLEAN

\* The goroutines that have the turn.
Turns ==
  {t \in {"client", "case", "sending", "receiver"} :
     CASE t = "client"   -> flumeClient \in {"call", "proxy", "query"}
       [] t = "case"     -> flowCase \notin {NoCase, sender}
       [] t = "sending"  -> sending # {}
       [] t = "receiver" -> receiver = "upsert"}

\* No lock guards the context, so one goroutine at a time may work with it; and
\* what is sent is the case of the element as it stands, about the question
\* that was asked last (process_askflume.go:89-145: one FlowCase, one Query and
\* one list of elements for all the channels).
TurnGoesAround ==
  /\ Cardinality(Turns) <= 1 /\ Cardinality(sending) <= 1
  /\ \A c \in sending : c = Case[element.name] /\ query = latest

\* A question the proxy has taken is answered, as far as there are rows, unless
\* a call of the client failed, the process died (a question about anything but
\* the tests ends it), or a FlowCase was reset before it was read
\* (process_askflume.go:94-98).
QuestionsAnswered ==
  \A q \in Questions :
    asked[q] = "taken" ~>
      asked[q] \in {"answered", "empty", "parked"} \/ flumeClient = "ended" \/ eaten
=============================================================================
