----------------------------- MODULE VgMailbox -----------------------------
(***************************************************************************)
(* The poll of the shared mailbox for answers of the Valuer General.  A    *)
(* poll fetches the oldest unread messages of the last seven days and      *)
(* takes them one by one: a reply is classified by the language model, the *)
(* verdict is recorded as an audit row of the case it is about, and the    *)
(* message is marked as read; a message of another sender is left as it    *)
(* is.  Only the mailbox remembers, by its unread flag, what is still to   *)
(* be done.                                                                *)
(*                                                                         *)
(* The cron tick neither waits for a poll nor catches what it throws: two  *)
(* polls may overlap, sharing one set of processed messages, and an        *)
(* exception is an unhandled rejection, which takes the process down.      *)
(* Messages are numbered in the order they are received.                   *)
(***************************************************************************)
EXTENDS Naturals, Sequences, FiniteSets

CONSTANTS
  Polls,          \* polls that may overlap
  LastMessage,    \* bound: messages ever received
  MessageKinds,
  MAX_INBOX_MESSAGES_PER_POLL,
  MaxMailFaults   \* bound: failed calls and crashes

Messages == 1..LastMessage

ASSUME MailAssumption ==
  /\ LastMessage \in Nat
  /\ MAX_INBOX_MESSAGES_PER_POLL \in Nat \ {0}
  /\ MaxMailFaults \in Nat
  /\ MessageKinds \subseteq {"reply", "other", "poison"}

VARIABLES
  kind,       \* what each message is; never changes.  The analysis of a
              \* "poison" reply throws whenever it is tried
  received,   \* messages 1..received are in the inbox
  aged,       \* messages 1..aged are older than the window
  unread,
  poll,       \* stage and remaining messages of each poll
  processedMessageIds,
  recorded,   \* audit rows written about each message
  overlapped, \* history: two polls have run side by side
  mailFaults

mailVars == << kind, received, aged, unread, poll, processedMessageIds,
               recorded, overlapped, mailFaults >>

NoPoll == [stage |-> "idle", list |-> << >>]
PollStages == {"idle", "fetch", "scan", "analyse", "record", "mark"}

\* A message is recorded at most once by a poll, and polls are only repeated
\* for it by a fault or an overlap: this many tell the cases apart.
Enough == MaxMailFaults + 2

MailInit ==
  /\ kind \in [Messages -> MessageKinds]
  /\ received = 0
  /\ aged = 0
  /\ unread = {}
  /\ poll = [p \in Polls |-> NoPoll]
  /\ processedMessageIds = {}
  /\ recorded = [m \in Messages |-> 0]
  /\ overlapped = FALSE
  /\ mailFaults = 0

Inbox == << kind, received, aged >>

Running == {p \in Polls : poll[p].stage # "idle"}
Current(p) == Head(poll[p].list)

MailFault ==
  /\ mailFaults < MaxMailFaults
  /\ mailFaults' = mailFaults + 1

-----------------------------------------------------------------------------
\* The mailbox

ReceiveMessage ==
  /\ received < LastMessage
  /\ received' = received + 1
  /\ unread' = unread \cup {received + 1}
  /\ UNCHANGED << kind, aged, poll, processedMessageIds, recorded, overlapped,
                  mailFaults >>

AgeMessage ==
  /\ aged < received
  /\ aged' = aged + 1
  /\ UNCHANGED << kind, received, unread, poll, processedMessageIds, recorded,
                  overlapped, mailFaults >>

-----------------------------------------------------------------------------
\* A poll

StartPoll(p) ==
  /\ poll[p].stage = "idle"
  /\ processedMessageIds' = {}
  /\ poll' = [poll EXCEPT ![p].stage = "fetch"]
  /\ overlapped' = (overlapped \/ Running # {})
  /\ UNCHANGED << Inbox, unread, recorded, mailFaults >>

Position(m, S) == Cardinality({n \in S : n <= m})

\* Mutant: one message less than a page.
ShortPage(S) ==
  {m \in S : Position(m, S) < MAX_INBOX_MESSAGES_PER_POLL}

\* $orderby receivedDateTime asc, $top
OldestOf(S) ==
  {m \in S : Position(m, S) <= MAX_INBOX_MESSAGES_PER_POLL}

\* The unread messages inside the window.
Fetched == OldestOf({m \in unread : m > aged})

InOrder(S) ==
  [n \in 1..Cardinality(S) |-> CHOOSE m \in S : Position(m, S) = n]

Scanning(list) ==
  IF list = << >> THEN NoPoll ELSE [stage |-> "scan", list |-> list]

FetchInboxMessages(p) ==
  /\ poll[p].stage = "fetch"
  /\ poll' = [poll EXCEPT ![p] = Scanning(InOrder(Fetched))]
  /\ UNCHANGED << Inbox, unread, processedMessageIds, recorded, overlapped,
                  mailFaults >>

\* Logged; the poll ends.
FetchFails(p) ==
  /\ poll[p].stage = "fetch"
  /\ MailFault
  /\ poll' = [poll EXCEPT ![p] = NoPoll]
  /\ UNCHANGED << Inbox, unread, processedMessageIds, recorded, overlapped >>

\* Done with the current message.
Proceed(p) ==
  /\ processedMessageIds' = processedMessageIds \cup {Current(p)}
  /\ poll' = [poll EXCEPT ![p] = Scanning(Tail(@.list))]

\* Seen by the other poll, or sent by somebody else: it stays unread.
SkipMessage(p) ==
  /\ poll[p].stage = "scan"
  /\ Current(p) \in processedMessageIds \/ kind[Current(p)] = "other"
  /\ Proceed(p)
  /\ UNCHANGED << Inbox, unread, recorded, overlapped, mailFaults >>

ProcessEmail(p) ==
  /\ poll[p].stage = "scan"
  /\ Current(p) \notin processedMessageIds
  /\ kind[Current(p)] # "other"
  /\ poll' = [poll EXCEPT ![p].stage = "analyse"]
  /\ UNCHANGED << Inbox, unread, processedMessageIds, recorded, overlapped,
                  mailFaults >>

\* A verdict: for a case, or one there is nothing to record for, because the
\* identifiers conflict or no case is found. A failed database lookup reads
\* as no case found.
AnalyseEmail(p) ==
  /\ poll[p].stage = "analyse"
  /\ kind[Current(p)] # "poison"
  /\ \E stage \in {"record", "mark"} :
       poll' = [poll EXCEPT ![p].stage = stage]
  /\ UNCHANGED << Inbox, unread, processedMessageIds, recorded, overlapped,
                  mailFaults >>

\* The process is gone, and every poll with it.
ProcessDown ==
  /\ poll' = [p \in Polls |-> NoPoll]
  /\ processedMessageIds' = {}
  /\ UNCHANGED << Inbox, unread, recorded, overlapped >>

\* The language model's API fails, and nothing catches it.
AnalysisThrows(p) ==
  /\ poll[p].stage = "analyse"
  /\ IF kind[Current(p)] = "poison" THEN UNCHANGED mailFaults ELSE MailFault
  /\ ProcessDown

CrashMonitor ==
  /\ Running # {}
  /\ MailFault
  /\ ProcessDown

\* The audit row; then the accountant's notification, whose failure changes
\* nothing here.
RecordVgEmailClassification(p) ==
  /\ poll[p].stage = "record"
  /\ recorded' = [recorded EXCEPT ![Current(p)] =
                    IF @ < Enough THEN @ + 1 ELSE @]
  /\ poll' = [poll EXCEPT ![p].stage = "mark"]
  /\ UNCHANGED << Inbox, unread, processedMessageIds, overlapped, mailFaults >>

\* The case is gone or the insert fails: logged, and the message is marked as
\* read all the same.
RecordingFails(p) ==
  /\ poll[p].stage = "record"
  /\ MailFault
  /\ poll' = [poll EXCEPT ![p].stage = "mark"]
  /\ UNCHANGED << Inbox, unread, processedMessageIds, recorded, overlapped >>

\* Mutant: remembered in the process only.
OnlyRemember(p) ==
  /\ poll[p].stage = "mark"
  /\ Proceed(p)
  /\ UNCHANGED << Inbox, unread, recorded, overlapped, mailFaults >>

SafeMarkAsRead(p) ==
  /\ poll[p].stage = "mark"
  /\ unread' = unread \ {Current(p)}
  /\ Proceed(p)
  /\ UNCHANGED << Inbox, recorded, overlapped, mailFaults >>

MarkFails(p) ==
  /\ poll[p].stage = "mark"
  /\ MailFault
  /\ Proceed(p)
  /\ UNCHANGED << Inbox, unread, recorded, overlapped >>

-----------------------------------------------------------------------------

PollStep(p) ==
  \/ FetchInboxMessages(p) \/ SkipMessage(p) \/ ProcessEmail(p)
  \/ AnalyseEmail(p) \/ AnalysisThrows(p)
  \/ RecordVgEmailClassification(p) \/ SafeMarkAsRead(p)

MailNext ==
  \/ ReceiveMessage \/ AgeMessage \/ CrashMonitor
  \/ \E p \in Polls :
       \/ StartPoll(p) \/ FetchInboxMessages(p) \/ FetchFails(p)
       \/ SkipMessage(p) \/ ProcessEmail(p) \/ AnalyseEmail(p)
       \/ AnalysisThrows(p) \/ RecordVgEmailClassification(p)
       \/ RecordingFails(p) \/ SafeMarkAsRead(p) \/ MarkFails(p)

\* The tick comes again, and a poll goes on.
MailFairness ==
  /\ WF_mailVars(Running = {} /\ \E p \in Polls : StartPoll(p))
  /\ \A p \in Polls : WF_mailVars(PollStep(p))

MailSpec == MailInit /\ [][MailNext]_mailVars /\ MailFairness

-----------------------------------------------------------------------------

MailTypeOK ==
  /\ kind \in [Messages -> MessageKinds]
  /\ received \in 0..LastMessage
  /\ aged \in 0..received
  /\ unread \subseteq 1..received
  /\ processedMessageIds \subseteq 1..received
  /\ \A p \in Polls :
       /\ poll[p].stage \in PollStages
       /\ poll[p].list = << >> <=> poll[p].stage \in {"idle", "fetch"}
  /\ recorded \in [Messages -> 0..Enough]
  /\ mailFaults \in 0..MaxMailFaults

\* A reply is recorded once, and once more at most for every call that failed
\* and every crash, as long as no two polls overlap: what the unread flag
\* forgets is bounded by what went wrong, whatever else is in the inbox.
RecordedOncePerFault ==
  ~overlapped => \A m \in Messages : recorded[m] <= 1 + mailFaults

\* The messages that stay in the way of m in every poll.
Before(m, k) == {n \in 1..(m - 1) : kind[n] = k}

\* A reply is dealt with before it leaves the window, or the window passes
\* it: it does not wait for ever, unless a page full of other senders' mail
\* or a reply whose analysis always throws is in front of it.
RepliesDealtWith ==
  \A m \in Messages :
    <>[](( /\ kind[m] = "reply" /\ m <= received
           /\ Cardinality(Before(m, "other")) < MAX_INBOX_MESSAGES_PER_POLL
           /\ Before(m, "poison") = {} ) => m \notin unread \/ m <= aged)
=============================================================================
