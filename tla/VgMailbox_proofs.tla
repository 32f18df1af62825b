------------------------- MODULE VgMailbox_proofs -------------------------
(***************************************************************************)
(* Theorems about the polls of the mailbox, for any number of messages and *)
(* faults and any size of a page.                                          *)
(***************************************************************************)
EXTENDS VgMailbox, FiniteSetTheorems, TLAPS

-----------------------------------------------------------------------------
(* The order of a page *)

\* No two messages of a finite set have the same place in it.
LEMMA PositionsDiffer ==
  ASSUME NEW S \in SUBSET Nat, IsFiniteSet(S), NEW m \in S, NEW n \in S, m < n
  PROVE  Position(m, S) < Position(n, S)
<1> DEFINE upTo(k) == {j \in S : j <= k}
<1>1. /\ upTo(m) \subseteq upTo(n) /\ upTo(m) # upTo(n)
      /\ upTo(m) \subseteq S /\ upTo(n) \subseteq S
  <2>1. S \subseteq Nat /\ m \in Nat /\ n \in Nat
    OBVIOUS
  <2>2. n \in upTo(n) /\ n \notin upTo(m)
    BY <2>1
  <2>3. ASSUME NEW j \in S, j <= m PROVE j <= n
    BY <2>1, <2>3
  <2>4. upTo(m) \subseteq upTo(n)
    BY <2>3
  <2> QED
    BY <2>2, <2>4
<1>2. /\ IsFiniteSet(upTo(m)) /\ IsFiniteSet(upTo(n))
      /\ Cardinality(upTo(m)) \in Nat /\ Cardinality(upTo(n)) \in Nat
  BY <1>1, FS_Subset, FS_CardinalityType
<1>3. /\ Cardinality(upTo(m)) <= Cardinality(upTo(n))
      /\ Cardinality(upTo(m)) # Cardinality(upTo(n))
  BY <1>1, <1>2, FS_Subset
<1> QED
  BY <1>2, <1>3 DEF Position

\* The places of a finite set are 1, 2, ... up to its size, each taken once:
\* InOrder lists every message of the set, the one received first in front.
LEMMA InOrderLists ==
  ASSUME NEW S \in SUBSET Nat, IsFiniteSet(S)
  PROVE  /\ InOrder(S) \in Seq(S)
         /\ InOrder(S) = << >> <=> S = {}
         /\ \A n \in 1..Cardinality(S) : Position(InOrder(S)[n], S) = n
<1> DEFINE size == Cardinality(S)
           place == [m \in S |-> Position(m, S)]
<1>1. size \in Nat /\ (size = 0 <=> S = {})
  BY FS_CardinalityType, FS_EmptySet
<1>2. ASSUME NEW m \in S PROVE Position(m, S) \in 1..size
  <2> DEFINE upTo == {j \in S : j <= m}
  <2>1. m \in upTo /\ upTo \subseteq S
    OBVIOUS
  <2>2. IsFiniteSet(upTo) /\ Cardinality(upTo) \in Nat /\ Cardinality(upTo) <= size
    BY <2>1, FS_Subset, FS_CardinalityType
  <2>3. Cardinality(upTo) # 0
    BY <2>1, <2>2, FS_EmptySet
  <2> QED
    BY <1>1, <2>2, <2>3 DEF Position
<1>3. place \in Injection(S, 1..size)
  <2>1. place \in [S -> 1..size]
    BY <1>2
  <2>2. ASSUME NEW m \in S, NEW n \in S, place[m] = place[n] PROVE m = n
    <3>1. m \in Nat /\ n \in Nat /\ place[m] \in Nat /\ place[n] \in Nat
      BY <1>2
    <3>2. ~(m < n) /\ ~(n < m)
      BY <2>2, <3>1, PositionsDiffer
    <3> QED
      BY <3>1, <3>2
  <2> QED
    BY <2>1, <2>2 DEF Injection, IsInjective
<1>4. IsFiniteSet(1..size) /\ Cardinality(1..size) = size
  BY <1>1, FS_Interval
<1>5. place \in Surjection(S, 1..size)
  BY <1>3, <1>4, FS_Injection
<1>6. \A n \in 1..size : \E m \in S : Position(m, S) = n
  BY <1>5 DEF Surjection
<1> HIDE DEF place
<1>7. \A n \in 1..size : InOrder(S)[n] \in S /\ Position(InOrder(S)[n], S) = n
  BY <1>6 DEF InOrder
<1>8. InOrder(S) \in [1..size -> S]
  BY <1>7 DEF InOrder
<1>9. InOrder(S) \in Seq(S) /\ Len(InOrder(S)) = size
  BY <1>1, <1>8
<1> QED
  BY <1>1, <1>7, <1>9

-----------------------------------------------------------------------------
(* The inductive invariant *)

\* A poll holds messages of the inbox.
PollType == [stage : PollStages, list : Seq(1..received)]

\* Who has the current message in hand.
InHand == {"analyse", "record", "mark"}

\* With one poll at a time, what its list still holds is unread or already
\* seen, and what it has in hand is unread and not seen.
OnePoll ==
  /\ \A p, q \in Running : p = q
  /\ \A p \in Polls : \A i \in DOMAIN poll[p].list :
       poll[p].list[i] \in unread \cup processedMessageIds
  /\ \A p \in Polls : poll[p].stage \in InHand =>
       Current(p) \in unread \ processedMessageIds

AtMark(m) == \E p \in Polls : poll[p].stage = "mark" /\ Current(p) = m

\* A message nobody has received has no row, one still to be dealt with at most
\* one for each fault, and one that is done with one more.
Paid ==
  \A m \in Messages :
    /\ m > received => recorded[m] = 0
    /\ recorded[m] <= 1 + mailFaults
    /\ m \in unread /\ ~AtMark(m) => recorded[m] <= mailFaults

MailInv ==
  /\ MailTypeOK
  /\ poll \in [Polls -> PollType]
  /\ overlapped \in BOOLEAN
  /\ ~overlapped => OnePoll /\ Paid

-----------------------------------------------------------------------------
(* Types *)

\* A list that is not empty: its head and the rest.
LEMMA HeadAndTail ==
  ASSUME NEW S, NEW list \in Seq(S), list # << >>
  PROVE  /\ 1 \in DOMAIN list /\ Head(list) = list[1] /\ Head(list) \in S
         /\ Tail(list) \in Seq(S)
         /\ \A i \in DOMAIN Tail(list) :
              i + 1 \in DOMAIN list /\ Tail(list)[i] = list[i + 1]
<1>1. Len(list) \in Nat /\ Len(list) # 0 /\ DOMAIN list = 1..Len(list)
  OBVIOUS
<1>2. Tail(list) \in Seq(S) /\ DOMAIN Tail(list) = 1..(Len(list) - 1)
  BY <1>1
<1> QED
  BY <1>1, <1>2

\* A sequence over a set is one over any larger set.
LEMMA SeqMono ==
  ASSUME NEW S, NEW T, S \subseteq T, NEW list \in Seq(S)
  PROVE  list \in Seq(T)
<1>1. Len(list) \in Nat /\ list \in [1..Len(list) -> S]
  OBVIOUS
<1>2. list \in [1..Len(list) -> T]
  BY <1>1
<1> QED
  BY <1>1, <1>2

\* The message a poll is at is one of the inbox.
LEMMA CurrentReceived ==
  ASSUME MailInv, NEW p \in Polls, poll[p].stage \notin {"idle", "fetch"}
  PROVE  /\ poll[p] \in PollType
         /\ poll[p].list # << >> /\ poll[p].list \in Seq(1..received)
         /\ Current(p) \in 1..received /\ Current(p) = poll[p].list[1]
         /\ 1 \in DOMAIN poll[p].list
         /\ Tail(poll[p].list) \in Seq(1..received)
         /\ \A i \in DOMAIN Tail(poll[p].list) :
              /\ i + 1 \in DOMAIN poll[p].list
              /\ Tail(poll[p].list)[i] = poll[p].list[i + 1]
<1>1. poll[p] \in PollType /\ poll[p].list # << >>
  BY DEF MailInv, MailTypeOK
<1>2. poll[p].list \in Seq(1..received)
  BY <1>1 DEF PollType
<1> QED
  BY <1>1, <1>2, HeadAndTail DEF Current

\* A poll left with a list is one that scans or none.
LEMMA ScanningTyped ==
  ASSUME NEW S, NEW list \in Seq(S)
  PROVE  /\ Scanning(list) \in [stage : PollStages, list : Seq(S)]
         /\ Scanning(list).list = << >> <=> Scanning(list).stage \in {"idle", "fetch"}
         /\ Scanning(list).stage \in {"idle", "scan"}
         /\ Scanning(list).list = list
<1>1. << >> \in Seq(S)
  OBVIOUS
<1> QED
  BY <1>1 DEF Scanning, NoPoll, PollStages


\* No poll and no mail at the start.
LEMMA InitMail == MailInit => MailInv
<1> SUFFICES ASSUME MailInit PROVE MailInv
  OBVIOUS
<1> USE MailAssumption
<1>1. << >> \in Seq(1..received)
  OBVIOUS
<1>2. MailTypeOK
  BY DEF MailInit, MailTypeOK, NoPoll, PollStages, Enough
<1>3. poll \in [Polls -> PollType]
  BY <1>1 DEF MailInit, NoPoll, PollType, PollStages
<1>4. OnePoll /\ Paid
  BY DEF MailInit, OnePoll, Paid, NoPoll, Running, InHand, Messages
<1> QED
  BY <1>2, <1>3, <1>4 DEF MailInit, MailInv

\* A poll that changes leaves the types in order if it is in order itself.
LEMMA PollTyped ==
  ASSUME MailInv, NEW p \in Polls, NEW new \in PollType,
         new.list = << >> <=> new.stage \in {"idle", "fetch"},
         poll' = [poll EXCEPT ![p] = new],
         UNCHANGED Inbox,
         unread' \subseteq unread,
         processedMessageIds' \subseteq 1..received,
         recorded' \in [Messages -> 0..Enough],
         mailFaults' \in 0..MaxMailFaults,
         overlapped' \in BOOLEAN
  PROVE  MailTypeOK' /\ poll' \in [Polls -> PollType]' /\ overlapped' \in BOOLEAN
<1>1. PollType' = PollType
  BY DEF PollType, Inbox
<1>2. poll \in [Polls -> PollType] /\ MailTypeOK
  BY DEF MailInv
<1>3. poll' \in [Polls -> PollType]
  BY <1>2
<1>4. \A q \in Polls : /\ poll'[q].stage \in PollStages
                       /\ poll'[q].list = << >> <=> poll'[q].stage \in {"idle", "fetch"}
  <2>1. new.stage \in PollStages
    BY DEF PollType
  <2>2. \A q \in Polls : poll'[q] = IF q = p THEN new ELSE poll[q]
    BY <1>2
  <2> QED
    BY <1>2, <2>1, <2>2 DEF MailTypeOK
<1>5. /\ kind' \in [Messages -> MessageKinds] /\ received' \in 0..LastMessage
      /\ aged' \in 0..received' /\ unread' \subseteq 1..received'
      /\ processedMessageIds' \subseteq 1..received'
  BY <1>2 DEF MailTypeOK, Inbox
<1>6. MailTypeOK'
  BY <1>4, <1>5 DEF MailTypeOK
<1> QED
  BY <1>1, <1>3, <1>6

\* A fault is one of those allowed for.
LEMMA FaultTyped ==
  ASSUME MailInv, MailFault
  PROVE  mailFaults' \in 0..MaxMailFaults /\ mailFaults' = mailFaults + 1
         /\ mailFaults \in Nat
BY MailAssumption DEF MailInv, MailTypeOK, MailFault

-----------------------------------------------------------------------------
(* The steps *)

\* A message that arrives is unread and has no row.
LEMMA ReceiveKeeps == MailInv /\ ReceiveMessage => MailInv'
<1> SUFFICES ASSUME MailInv, ReceiveMessage PROVE MailInv'
  OBVIOUS
<1> USE MailAssumption
<1>1. /\ received' = received + 1 /\ received \in Nat /\ received < LastMessage
      /\ unread' = unread \cup {received + 1}
      /\ UNCHANGED << kind, aged, poll, processedMessageIds, recorded, overlapped,
                      mailFaults >>
      /\ mailFaults \in Nat
  BY DEF ReceiveMessage, MailInv, MailTypeOK
<1>2. 1..received \subseteq 1..received' /\ received' \in 1..received'
  BY <1>1
<1>3. MailTypeOK'
  BY <1>1, <1>2 DEF MailInv, MailTypeOK
<1>4. poll' \in [Polls -> PollType]'
  <2>1. Seq(1..received) \subseteq Seq(1..received')
    BY <1>2, SeqMono
  <2>2. PollType \subseteq PollType'
    BY <2>1 DEF PollType
  <2> QED
    BY <1>1, <2>2 DEF MailInv
<1>5. ASSUME ~overlapped' PROVE OnePoll' /\ Paid'
  <2>1. OnePoll /\ Paid
    BY <1>1, <1>5 DEF MailInv
  <2>2. OnePoll'
    BY <1>1, <2>1 DEF OnePoll, Running, Current
  <2>4. ASSUME NEW m \in Messages
        PROVE  /\ m > received' => recorded'[m] = 0
               /\ recorded'[m] <= 1 + mailFaults'
               /\ m \in unread' /\ ~AtMark(m)' => recorded'[m] <= mailFaults'
    <3>1. /\ m > received => recorded[m] = 0
          /\ recorded[m] <= 1 + mailFaults
          /\ m \in unread /\ ~AtMark(m) => recorded[m] <= mailFaults
          /\ m \in Nat
      BY <2>1 DEF Paid, Messages
    <3>2. AtMark(m)' <=> AtMark(m)
      BY <1>1 DEF AtMark, Current
    <3> QED
      BY <1>1, <3>1, <3>2
  <2> QED
    BY <2>2, <2>4 DEF Paid
<1> QED
  BY <1>1, <1>3, <1>4, <1>5 DEF MailInv

\* A step that touches no message but the bookkeeping of polls: what is said of
\* the messages stays true when no poll was at its mark.
LEMMA PaidKept ==
  ASSUME MailInv, Paid, UNCHANGED << recorded, received >>,
         mailFaults' >= mailFaults, mailFaults' \in Nat,
         unread' \subseteq unread,
         \A m \in Messages :
           AtMark(m) /\ m \in unread' => AtMark(m)' \/ mailFaults' = mailFaults + 1
  PROVE  Paid'
<1> SUFFICES ASSUME NEW m \in Messages
             PROVE  /\ m > received' => recorded'[m] = 0
                    /\ recorded'[m] <= 1 + mailFaults'
                    /\ m \in unread' /\ ~AtMark(m)' => recorded'[m] <= mailFaults'
  BY DEF Paid
<1>1. /\ m > received => recorded[m] = 0
      /\ recorded[m] <= 1 + mailFaults
      /\ m \in unread /\ ~AtMark(m) => recorded[m] <= mailFaults
      /\ recorded[m] \in Nat /\ mailFaults \in Nat
  BY MailAssumption DEF Paid, MailInv, MailTypeOK, Enough
<1> QED
  BY <1>1

\* A poll begins with nothing seen; it is alone, or the polls overlap.
LEMMA StartKeeps ==
  ASSUME MailInv, NEW p \in Polls, StartPoll(p)
  PROVE  MailInv'
<1>1. /\ poll[p].stage = "idle" /\ processedMessageIds' = {}
      /\ poll' = [poll EXCEPT ![p].stage = "fetch"]
      /\ overlapped' = (overlapped \/ Running # {})
      /\ UNCHANGED << kind, received, aged, unread, recorded, mailFaults >>
      /\ poll \in [Polls -> PollType]
      /\ poll[p].list = << >>
  BY DEF StartPoll, Inbox, MailInv, MailTypeOK
<1> DEFINE new == [stage |-> "fetch", list |-> << >>]
<1>2. /\ new \in PollType /\ poll' = [poll EXCEPT ![p] = new]
  <2>1. << >> \in Seq(1..received)
    OBVIOUS
  <2>2. new \in PollType
    BY <2>1 DEF PollType, PollStages
  <2>3. poll[p] \in PollType
    BY <1>1
  <2>4. [poll[p] EXCEPT !.stage = "fetch"] = new
    BY <1>1, <2>3 DEF PollType
  <2> QED
    BY <1>1, <2>2, <2>4
<1>3. MailTypeOK' /\ poll' \in [Polls -> PollType]' /\ overlapped' \in BOOLEAN
  <2>1. overlapped' \in BOOLEAN
    BY <1>1 DEF MailInv
  <2> QED
    BY <1>1, <1>2, <2>1, PollTyped DEF MailInv, MailTypeOK, Inbox
<1>4. ASSUME ~overlapped' PROVE OnePoll' /\ Paid'
  <2>1. OnePoll /\ Paid /\ \A q \in Polls : poll[q].stage = "idle"
    BY <1>1, <1>4 DEF MailInv, Running
  <2>2. \A q \in Polls : poll'[q].stage = (IF q = p THEN "fetch" ELSE "idle")
                         /\ poll'[q].list = << >>
    BY <1>1, <1>2, <2>1 DEF MailInv, MailTypeOK
  <2>3. OnePoll'
    BY <2>2 DEF OnePoll, Running, InHand
  <2>4. Paid'
    BY <1>1, <2>1, PaidKept, MailAssumption DEF AtMark, MailInv, MailTypeOK
  <2> QED
    BY <2>3, <2>4
<1> QED
  BY <1>3, <1>4 DEF MailInv

\* A page is made of unread messages.
LEMMA FetchKeeps ==
  ASSUME MailInv, NEW p \in Polls, FetchInboxMessages(p)
  PROVE  MailInv'
<1> DEFINE list == InOrder(Fetched)
           new == Scanning(list)
<1>1. /\ poll[p].stage = "fetch" /\ poll' = [poll EXCEPT ![p] = new]
      /\ UNCHANGED << kind, received, aged, unread, processedMessageIds, recorded,
                      overlapped, mailFaults >>
      /\ received \in Nat /\ poll \in [Polls -> PollType]
  BY MailAssumption DEF FetchInboxMessages, Inbox, MailInv, MailTypeOK
<1>2. Fetched \subseteq unread /\ unread \subseteq 1..received
  BY DEF Fetched, OldestOf, MailInv, MailTypeOK
<1>3. list \in Seq(Fetched) /\ list \in Seq(1..received)
  <2>1. IsFiniteSet(1..received) /\ Fetched \in SUBSET Nat
    BY <1>1, <1>2, FS_Interval
  <2>2. IsFiniteSet(Fetched)
    BY <1>2, <2>1, FS_Subset
  <2>3. list \in Seq(Fetched)
    BY <2>1, <2>2, InOrderLists
  <2>4. Fetched \subseteq 1..received
    BY <1>2
  <2> QED
    BY <2>3, <2>4, SeqMono
<1>4. /\ new \in PollType /\ new.list = list
      /\ new.list = << >> <=> new.stage \in {"idle", "fetch"}
      /\ new.stage \in {"idle", "scan"}
  BY <1>3, ScanningTyped DEF PollType
<1> HIDE DEF new
<1>5. MailTypeOK' /\ poll' \in [Polls -> PollType]' /\ overlapped' \in BOOLEAN
  BY <1>1, <1>4, PollTyped DEF MailInv, MailTypeOK, Inbox
<1>6. ASSUME ~overlapped' PROVE OnePoll' /\ Paid'
  <2>1. OnePoll /\ Paid
    BY <1>1, <1>6 DEF MailInv
  <2> HIDE DEF list
  <2>2. \A i \in DOMAIN list : list[i] \in unread
    <3>1. \A i \in DOMAIN list : list[i] \in Fetched
      BY <1>3
    <3> QED
      BY <1>2, <3>1
  <2>3. OnePoll'
    BY <1>1, <1>4, <2>1, <2>2 DEF OnePoll, Running, InHand, Current
  <2>4. Paid'
    BY <1>1, <2>1, PaidKept, MailAssumption DEF AtMark, Current, MailInv, MailTypeOK
  <2> QED
    BY <2>3, <2>4
<1> QED
  BY <1>5, <1>6 DEF MailInv

\* Giving the list up keeps it.
LEMMA FetchFailsKeeps ==
  ASSUME MailInv, NEW p \in Polls, FetchFails(p)
  PROVE  MailInv'
<1>1. /\ poll[p].stage = "fetch" /\ poll' = [poll EXCEPT ![p] = NoPoll] /\ MailFault
      /\ UNCHANGED << kind, received, aged, unread, processedMessageIds, recorded,
                      overlapped >>
      /\ poll \in [Polls -> PollType]
  BY DEF FetchFails, Inbox, MailInv
<1>2. /\ mailFaults' \in 0..MaxMailFaults /\ mailFaults' = mailFaults + 1
      /\ mailFaults \in Nat
  BY <1>1, FaultTyped
<1>3. NoPoll \in PollType
  BY DEF NoPoll, PollType, PollStages
<1>4. MailTypeOK' /\ poll' \in [Polls -> PollType]' /\ overlapped' \in BOOLEAN
  BY <1>1, <1>2, <1>3, PollTyped DEF NoPoll, MailInv, MailTypeOK, Inbox
<1>5. ASSUME ~overlapped' PROVE OnePoll' /\ Paid'
  <2>1. OnePoll /\ Paid
    BY <1>1, <1>5 DEF MailInv
  <2>2. OnePoll'
    BY <1>1, <2>1 DEF OnePoll, Running, InHand, Current, NoPoll
  <2>3. Paid'
    BY <1>1, <1>2, <2>1, PaidKept
  <2> QED
    BY <2>2, <2>3
<1> QED
  BY <1>4, <1>5 DEF MailInv

\* Going on to the next message: the last one is seen, and if it was at its
\* mark, it is read or a fault has been counted.
LEMMA ProceedKeeps ==
  ASSUME MailInv, NEW p \in Polls, Proceed(p), poll[p].stage \in {"scan", "mark"},
         UNCHANGED << kind, received, aged, recorded, overlapped >>,
         \/ UNCHANGED << unread, mailFaults >> /\ poll[p].stage = "scan"
         \/ unread' = unread \ {Current(p)} /\ UNCHANGED mailFaults
         \/ UNCHANGED unread /\ MailFault
  PROVE  MailInv'
<1> DEFINE rest == Tail(poll[p].list)
           new == Scanning(rest)
<1>1. /\ poll' = [poll EXCEPT ![p] = new]
      /\ processedMessageIds' = processedMessageIds \cup {Current(p)}
      /\ poll \in [Polls -> PollType]
  BY DEF Proceed, MailInv
<1>2. /\ Current(p) \in 1..received /\ rest \in Seq(1..received)
      /\ Current(p) = poll[p].list[1]
      /\ \A i \in DOMAIN rest : /\ i + 1 \in DOMAIN poll[p].list
                                /\ rest[i] = poll[p].list[i + 1]
  BY CurrentReceived
<1>3. /\ new \in PollType /\ new.list = rest
      /\ new.list = << >> <=> new.stage \in {"idle", "fetch"}
      /\ new.stage \in {"idle", "scan"}
  BY <1>2, ScanningTyped DEF PollType
<1> HIDE DEF new, rest
<1>4. /\ mailFaults' \in 0..MaxMailFaults /\ mailFaults' \in Nat /\ mailFaults \in Nat
      /\ mailFaults' \in {mailFaults, mailFaults + 1}
  BY FaultTyped, MailAssumption DEF MailInv, MailTypeOK
<1>5. MailTypeOK' /\ poll' \in [Polls -> PollType]' /\ overlapped' \in BOOLEAN
  BY <1>1, <1>2, <1>3, <1>4, PollTyped DEF MailInv, MailTypeOK, Inbox
<1>6. ASSUME ~overlapped' PROVE OnePoll' /\ Paid'
  <2>1. OnePoll /\ Paid
    BY <1>6 DEF MailInv
  <2>2. p \in Running /\ Running' \subseteq Running
    BY <1>1 DEF Running
  <2>3. \A q \in Polls : q # p => /\ poll'[q] = poll[q]
                                  /\ poll[q].stage = "idle" /\ poll[q].list = << >>
    BY <1>1, <2>1, <2>2 DEF OnePoll, Running, MailInv, MailTypeOK
  <2>4. poll'[p] = new
    BY <1>1
  <2>5. unread \ {Current(p)} \subseteq unread' /\ unread' \subseteq unread
    OBVIOUS
  <2>6. OnePoll'
    <3>1. \A q \in Polls : \A i \in DOMAIN poll'[q].list :
            poll'[q].list[i] \in unread' \cup processedMessageIds'
      BY <1>1, <1>2, <1>3, <2>1, <2>3, <2>4, <2>5 DEF OnePoll
    <3>2. \A q \in Polls : poll'[q].stage \notin InHand
      BY <1>3, <2>3, <2>4 DEF InHand
    <3> QED
      BY <2>1, <2>2, <3>1, <3>2 DEF OnePoll
  <2>7. ASSUME NEW m \in Messages, AtMark(m), m \in unread'
        PROVE  mailFaults' = mailFaults + 1
    <3>1. poll[p].stage = "mark" /\ Current(p) = m
      BY <2>3, <2>7 DEF AtMark
    <3> QED
      BY <2>7, <3>1, FaultTyped
  <2>8. Paid'
    BY <1>4, <2>1, <2>5, <2>7, PaidKept
  <2> QED
    BY <2>6, <2>8
<1> QED
  BY <1>5, <1>6 DEF MailInv

\* A poll that takes its message one stage further: the row it writes, if any,
\* is the first since the last fault.
LEMMA StageKeeps ==
  ASSUME MailInv, NEW p \in Polls, NEW stage \in InHand,
         poll' = [poll EXCEPT ![p].stage = stage],
         UNCHANGED << kind, received, aged, unread, processedMessageIds, overlapped >>,
         \/ poll[p].stage = "scan" /\ Current(p) \notin processedMessageIds
         \/ poll[p].stage \in {"analyse", "record"},
         \/ UNCHANGED << recorded, mailFaults >>
         \/ UNCHANGED recorded /\ MailFault
         \/ /\ stage = "mark" /\ UNCHANGED mailFaults
            /\ recorded' = [recorded EXCEPT ![Current(p)] = IF @ < Enough THEN @ + 1 ELSE @]
  PROVE  MailInv'
<1> DEFINE new == [poll[p] EXCEPT !.stage = stage]
<1>1. /\ poll[p] \in PollType /\ poll[p].list # << >>
      /\ Current(p) \in 1..received /\ 1 \in DOMAIN poll[p].list
      /\ Current(p) = poll[p].list[1]
  BY CurrentReceived DEF InHand
<1>2. /\ new \in PollType /\ new.list = poll[p].list /\ new.stage = stage
      /\ poll' = [poll EXCEPT ![p] = new]
      /\ stage \notin {"idle", "fetch"}
  BY <1>1 DEF PollType, PollStages, InHand
<1> HIDE DEF new
<1>3. /\ mailFaults' \in 0..MaxMailFaults /\ mailFaults \in Nat
      /\ mailFaults' \in {mailFaults, mailFaults + 1}
  BY FaultTyped, MailAssumption DEF MailInv, MailTypeOK
<1>4. recorded' \in [Messages -> 0..Enough] /\ recorded \in [Messages -> 0..Enough]
  <2>1. Enough \in Nat
    BY MailAssumption DEF Enough
  <2> QED
    BY <2>1 DEF MailInv, MailTypeOK
<1>5. MailTypeOK' /\ poll' \in [Polls -> PollType]' /\ overlapped' \in BOOLEAN
  BY <1>1, <1>2, <1>3, <1>4, PollTyped DEF MailInv, MailTypeOK, Inbox
<1>6. ASSUME ~overlapped' PROVE OnePoll' /\ Paid'
  <2>1. OnePoll /\ Paid /\ poll \in [Polls -> PollType]
    BY <1>6 DEF MailInv
  <2>2. p \in Running /\ \A q \in Polls : q # p => poll[q].stage = "idle"
    BY <2>1 DEF OnePoll, Running
  <2>3. /\ \A q \in Polls : q # p => poll'[q] = poll[q]
        /\ poll'[p] = new
    BY <1>2, <2>1
  <2>4. Current(p) \in unread \ processedMessageIds
    BY <1>1, <2>1 DEF OnePoll, InHand
  <2>5. Current(p)' = Current(p)
    BY <1>2, <2>3 DEF Current
  <2>6. OnePoll'
    <3>1. Running' \subseteq {p}
      BY <2>2, <2>3 DEF Running
    <3>2. \A q \in Polls : poll'[q].list = poll[q].list
      BY <1>2, <2>3
    <3>3. \A q \in Polls : \A i \in DOMAIN poll'[q].list :
            poll'[q].list[i] \in unread' \cup processedMessageIds'
      BY <2>1, <3>2 DEF OnePoll
    <3>4. \A q \in Polls : poll'[q].stage \in InHand => q = p
      BY <2>2, <2>3 DEF InHand
    <3> QED
      BY <2>4, <2>5, <3>1, <3>3, <3>4 DEF OnePoll
  <2>7. \A m \in Messages : ~AtMark(m)
    BY <2>2 DEF AtMark
  <2>8. CASE UNCHANGED recorded
    <3>1. mailFaults' \in Nat /\ mailFaults' >= mailFaults
      BY <1>3
    <3>2. Paid'
      BY <2>1, <2>7, <2>8, <3>1, PaidKept
    <3> QED
      BY <2>6, <3>2
  <2>9. CASE /\ stage = "mark" /\ UNCHANGED mailFaults
             /\ recorded' = [recorded EXCEPT ![Current(p)] = IF @ < Enough THEN @ + 1 ELSE @]
    <3>1. poll'[p].stage = "mark"
      BY <1>2, <2>3, <2>9
    <3>2. \A m \in Messages : recorded'[m] = IF m = Current(p)
                               THEN IF recorded[m] < Enough THEN recorded[m] + 1 ELSE recorded[m]
                               ELSE recorded[m]
      BY <1>4, <2>9
    <3>3. ASSUME NEW m \in Messages
          PROVE  /\ m > received => recorded'[m] = 0
                 /\ recorded'[m] <= 1 + mailFaults
                 /\ m \in unread /\ ~AtMark(m)' => recorded'[m] <= mailFaults
      <4>1. /\ m > received => recorded[m] = 0 /\ m # Current(p)
            /\ recorded[m] <= 1 + mailFaults
            /\ m \in unread => recorded[m] <= mailFaults
            /\ recorded[m] \in Nat
        <5>1. received \in Nat /\ Current(p) <= received
          BY <1>1, MailAssumption DEF MailInv, MailTypeOK
        <5>2. m > received => m # Current(p)
          BY <1>1, <5>1 DEF Messages
        <5> QED
          BY <1>4, <2>1, <2>7, <5>2 DEF Paid
      <4>2. CASE m = Current(p)
        <5>1. m \in unread /\ AtMark(m)'
          BY <2>4, <2>5, <3>1, <4>2 DEF AtMark
        <5>2. recorded'[m] \in {recorded[m], recorded[m] + 1}
          BY <3>2
        <5>3. recorded[m] <= mailFaults /\ ~(m > received)
          BY <4>1, <4>2, <5>1
        <5> QED
          BY <1>3, <4>1, <5>1, <5>2, <5>3
      <4>3. CASE m # Current(p)
        BY <3>2, <4>1, <4>3
      <4> QED
        BY <4>2, <4>3
    <3>4. Paid'
      BY <2>9, <3>3 DEF Paid
    <3> QED
      BY <2>6, <3>4
  <2> QED
    BY <2>6, <2>8, <2>9
<1> QED
  BY <1>5, <1>6 DEF MailInv

\* A process that goes down takes its polls along; only a poll at its mark
\* leaves something undone, and that takes a fault.
LEMMA DownKeeps ==
  ASSUME MailInv, ProcessDown,
         \/ MailFault
         \/ UNCHANGED mailFaults /\ \E p \in Polls : poll[p].stage = "analyse"
  PROVE  MailInv'
<1>1. /\ poll' = [p \in Polls |-> NoPoll] /\ processedMessageIds' = {}
      /\ UNCHANGED << kind, received, aged, unread, recorded, overlapped >>
  BY DEF ProcessDown, Inbox
<1>2. /\ mailFaults' \in 0..MaxMailFaults /\ mailFaults \in Nat
      /\ mailFaults' \in {mailFaults, mailFaults + 1}
  BY FaultTyped, MailAssumption DEF MailInv, MailTypeOK
<1>3. MailTypeOK' /\ poll' \in [Polls -> PollType]' /\ overlapped' \in BOOLEAN
  <2>1. NoPoll \in PollType'
    BY DEF NoPoll, PollType, PollStages
  <2> QED
    BY <1>1, <1>2, <2>1 DEF MailInv, MailTypeOK, NoPoll, PollStages
<1>4. ASSUME ~overlapped' PROVE OnePoll' /\ Paid'
  <2>1. OnePoll /\ Paid
    BY <1>1, <1>4 DEF MailInv
  <2>2. OnePoll'
    BY <1>1 DEF OnePoll, Running, InHand, NoPoll
  <2>3. ASSUME NEW m \in Messages, AtMark(m) PROVE mailFaults' = mailFaults + 1
    <3>1. ASSUME NEW p \in Polls, poll[p].stage = "analyse" PROVE FALSE
      BY <2>1, <2>3, <3>1 DEF AtMark, OnePoll, Running
    <3> QED
      BY <3>1, FaultTyped
  <2>4. Paid'
    BY <1>1, <1>2, <2>1, <2>3, PaidKept
  <2> QED
    BY <2>2, <2>4
<1> QED
  BY <1>3, <1>4 DEF MailInv

\* Every step keeps the invariant.
LEMMA NextMail == MailInv /\ [MailNext]_mailVars => MailInv'
<1> SUFFICES ASSUME MailInv, [MailNext]_mailVars PROVE MailInv'
  OBVIOUS
<1>1. CASE ReceiveMessage
  BY <1>1, ReceiveKeeps
<1>2. CASE AgeMessage \/ UNCHANGED mailVars
  <2>1. /\ UNCHANGED << kind, received, unread, poll, processedMessageIds, recorded,
                        overlapped, mailFaults >>
        /\ aged' \in 0..received
    BY <1>2, MailAssumption DEF AgeMessage, mailVars, MailInv, MailTypeOK
  <2>2. MailTypeOK' /\ poll' \in [Polls -> PollType]'
    BY <2>1 DEF MailInv, MailTypeOK, PollType
  <2>3. OnePoll' = OnePoll /\ Paid' = Paid
    BY <2>1 DEF OnePoll, Paid, Running, Current, AtMark
  <2> QED
    BY <2>1, <2>2, <2>3 DEF MailInv
<1>3. CASE CrashMonitor
  BY <1>3, DownKeeps DEF CrashMonitor
<1>4. ASSUME NEW p \in Polls, StartPoll(p) PROVE MailInv'
  BY <1>4, StartKeeps
<1>5. ASSUME NEW p \in Polls, FetchInboxMessages(p) PROVE MailInv'
  BY <1>5, FetchKeeps
<1>6. ASSUME NEW p \in Polls, FetchFails(p) PROVE MailInv'
  BY <1>6, FetchFailsKeeps
<1>7. ASSUME NEW p \in Polls, SkipMessage(p) \/ SafeMarkAsRead(p) \/ MarkFails(p)
      PROVE  MailInv'
  BY <1>7, ProceedKeeps DEF SkipMessage, SafeMarkAsRead, MarkFails, Inbox
<1>8. ASSUME NEW p \in Polls, ProcessEmail(p) PROVE MailInv'
  BY <1>8, StageKeeps DEF ProcessEmail, Inbox, InHand
<1>9. ASSUME NEW p \in Polls, AnalyseEmail(p) PROVE MailInv'
  BY <1>9, StageKeeps DEF AnalyseEmail, Inbox, InHand
<1>10. ASSUME NEW p \in Polls, AnalysisThrows(p) PROVE MailInv'
  BY <1>10, DownKeeps DEF AnalysisThrows
<1>11. ASSUME NEW p \in Polls, RecordVgEmailClassification(p) PROVE MailInv'
  BY <1>11, StageKeeps DEF RecordVgEmailClassification, Inbox, InHand
<1>12. ASSUME NEW p \in Polls, RecordingFails(p) PROVE MailInv'
  BY <1>12, StageKeeps DEF RecordingFails, Inbox, InHand
<1> QED
  BY <1>1, <1>2, <1>3, <1>4, <1>5, <1>6, <1>7, <1>8, <1>9, <1>10, <1>11, <1>12
  DEF MailNext

\* However polls overlap, crash and fail, each row beyond a message's first is paid
\* for, and lists, seen ids and read flags stay together.
THEOREM MailInvariant == MailSpec => []MailInv
BY InitMail, NextMail, PTL DEF MailSpec

-----------------------------------------------------------------------------
(* What follows *)

\* The lists of the polls, what they have seen and what is unread stay messages
\* of the inbox, and a poll holds a list exactly while it works through one.
THEOREM MailboxTyped == MailSpec => []MailTypeOK
<1>1. MailInv => MailTypeOK
  BY DEF MailInv
<1> QED
  BY <1>1, MailInvariant, PTL

\* As long as polls do not overlap, a reply gets one row, and one more at most
\* for every fault there has been: between the row and the unread flag only a
\* fault comes.
THEOREM RowsArePaidFor == MailSpec => []RecordedOncePerFault
<1>1. MailInv => RecordedOncePerFault
  BY DEF MailInv, Paid, RecordedOncePerFault
<1> QED
  BY <1>1, MailInvariant, PTL
=============================================================================
